---- MODULE Spec2Model ----
(***************************************************************************)
(* CareerNav ingestion pipeline: the job-posting store and its upsert,     *)
(* the collection orchestrator, the TheirStack client and the scheduler.   *)
(*                                                                         *)
(* Python values are written as TLA+ strings; NONE stands for None, INT0   *)
(* and INT7 for the integers 0 and 7 (upstream ids may be numbers).  Text  *)
(* the code inspects (roles, titles) is a sequence of characters, with     *)
(* NONE_S standing for None.                                               *)
(***************************************************************************)
EXTENDS Integers, Sequences, FiniteSets, TLC

NONE == "<None>"
INT0 == "<int 0>"
INT7 == "<int 7>"
NONE_S == <<"<None>">>

\* Python truthiness of a scalar: None, "" and 0 are falsy.
Truthy(v) == v \notin {NONE, "", INT0}

\* Python truthiness of a text value: None and "" are falsy.
TruthyS(s) == s # NONE_S /\ s # <<>>

\* a or b
Or(a, b) == IF Truthy(a) THEN a ELSE b

\* a or b, for text values
OrS(a, b) == IF TruthyS(a) THEN a ELSE b

\* str(v)
Str(v) == CASE v = INT0 -> "0" [] v = INT7 -> "7" [] OTHER -> v

Max(a, b) == IF a >= b THEN a ELSE b
Min(a, b) == IF a <= b THEN a ELSE b

(***************************************************************************)
(* Bounds of the model.                                                    *)
(***************************************************************************)
\* largest per_role_limit a caller passes
MaxLimit == 2
\* postings the upstream delivers in all, over one behaviour
MaxSupply == 3
\* longest page the upstream answers with
MaxPage == 2

\* the value at which the counters that no test of the code reads (the page
\* number, the pages and credits of a role, the clock of a run) stop growing
MaxCount == 6

\* settings.max_jobs_per_search, scaled to the model's page sizes
max_jobs_per_search == 2

(***************************************************************************)
(* Text helpers.                                                           *)
(***************************************************************************)
LowerChar(c) ==
    CASE c = "A" -> "a" [] c = "B" -> "b" [] c = "C" -> "c" [] c = "D" -> "d"
      [] c = "E" -> "e" [] c = "F" -> "f" [] c = "G" -> "g" [] c = "H" -> "h"
      [] c = "I" -> "i" [] c = "J" -> "j" [] c = "K" -> "k" [] c = "L" -> "l"
      [] c = "M" -> "m" [] c = "N" -> "n" [] c = "O" -> "o" [] c = "P" -> "p"
      [] c = "Q" -> "q" [] c = "R" -> "r" [] c = "S" -> "s" [] c = "T" -> "t"
      [] c = "U" -> "u" [] c = "V" -> "v" [] c = "W" -> "w" [] c = "X" -> "x"
      [] c = "Y" -> "y" [] c = "Z" -> "z"
      [] OTHER -> c

\* str.lower()
Lower(s) == [i \in 1..Len(s) |-> LowerChar(s[i])]

\* sub in s
Contains(s, sub) ==
    \E i \in 0..(Len(s) - Len(sub)) :
        \A j \in 1..Len(sub) : s[i + j] = sub[j]

RECURSIVE LStrip(_)
LStrip(s) == IF s # <<>> /\ Head(s) = " " THEN LStrip(Tail(s)) ELSE s

RECURSIVE RStrip(_)
RStrip(s) ==
    IF s # <<>> /\ s[Len(s)] = " " THEN RStrip(SubSeq(s, 1, Len(s) - 1)) ELSE s

\* str.strip()
Strip(s) == RStrip(LStrip(s))

react == <<"r", "e", "a", "c", "t">>
native == <<"n", "a", "t", "i", "v", "e">>
react_native == react \o <<" ">> \o native

\* roles a caller may pass
RoleReact == <<"R", "e", "a", "c", "t">>
RoleQA == <<"Q", "A">>
RolePaddedQA == <<" ">> \o RoleQA \o <<" ">>
RoleBlank == <<" ">>

\* titles the upstream may report
TitleDev == <<"D", "e", "v">>
TitleSenior == <<"S", "r">>
TitleReactNative == <<"R", "e", "a", "c", "t", " ", "N", "a", "t", "i", "v", "e">>

(***************************************************************************)
(* Raw postings of the upstream.  Each logical field may arrive under      *)
(* several keys.                                                           *)
(***************************************************************************)
Raw(jid, id, jurl, url, durl, jtitle, title) ==
    [job_id |-> jid, id |-> id, job_url |-> jurl, url |-> url, detail_url |-> durl,
     job_title |-> jtitle, title |-> title, technology_slugs |-> <<>>]

\* the raw posting job with the list slugs under "technology_slugs"
Tagged(job, slugs) == [job EXCEPT !.technology_slugs = slugs]

RawJobs ==
    { Raw("j1", NONE, "u1", NONE, NONE, TitleDev, NONE_S),
      Raw("j1", NONE, "u1", NONE, NONE, TitleSenior, NONE_S),
      Raw("j1", NONE, NONE, "u2", NONE, TitleDev, NONE_S),
      Raw(NONE, "j2", NONE, NONE, "u2", NONE_S, TitleDev),
      Raw(NONE, NONE, "u1", NONE, NONE, TitleSenior, NONE_S),
      Raw(NONE, NONE, "", "u2", NONE, <<>>, NONE_S),
      Raw("j2", NONE, NONE, NONE, NONE, TitleDev, NONE_S),
      Raw(INT0, INT7, NONE, NONE, "", TitleDev, NONE_S),
      Raw(NONE, NONE, NONE, NONE, NONE, TitleDev, NONE_S),
      Raw("", INT0, "", NONE, "", NONE_S, TitleSenior),
      Raw("j2", NONE, "u2", NONE, NONE, TitleReactNative, NONE_S) }

\* one posting of each fate: stored, rejected by the mapping, refused by the
\* document model, skipped for a React role
SampleJobs ==
    { Raw("j1", NONE, "u1", NONE, NONE, TitleDev, NONE_S),
      Raw(NONE, NONE, NONE, NONE, NONE, TitleDev, NONE_S),
      Raw("j2", NONE, NONE, NONE, NONE, TitleDev, NONE_S),
      Raw("j2", NONE, "u2", NONE, NONE, TitleReactNative, NONE_S) }

\* the postings two runs contend for: the same job_id or the same url under
\* different payloads
ContendedJobs ==
    { Raw("j1", NONE, "u1", NONE, NONE, TitleDev, NONE_S),
      Raw("j1", NONE, "u1", NONE, NONE, TitleSenior, NONE_S),
      Raw("j1", NONE, NONE, "u2", NONE, TitleDev, NONE_S),
      Raw(NONE, "j2", NONE, NONE, "u2", NONE_S, TitleDev),
      Raw(NONE, NONE, "u1", NONE, NONE, TitleSenior, NONE_S) }

\* the metadata the upstream may attach to a page
PageMetadata ==
    { [has_more |-> "True", credits_used |-> 1],
      [has_more |-> "False", credits_used |-> 1],
      [has_more |-> NONE, credits_used |-> 0] }

Runners == {"scheduled", "manual"}

VARIABLES
    store,      \* the job_postings collection: a set of documents
    next_id,    \* the next _id the collection hands out
    clock,      \* datetime.utcnow()
    run,        \* run[r]: the locals of runner r's collect_jobs_for_roles call
    pending,    \* the triggers that have not fired yet
    upstream,   \* what the upstream answers with: its postings and page metadata
    supply,     \* how many more postings the upstream delivers
    client,     \* the TheirStackClient instance: its session and max_retries
    call,       \* call[c]: the locals of caller c's search_jobs call
    answers,    \* the answers the upstream gives to a POST
    scheduler,  \* the SchedulerService, its AsyncIOScheduler and what it has run
    market,     \* the analytics request in progress and the module's cache
    cleanup,    \* a cleanup_old_jobs call: its argument and what it returned
    calc,       \* a pure function under evaluation: its argument and its results
    role_skills, \* a get_role_required_skills call: its locals and the module's cache
    gap,        \* a compute_user_coverage call: its arguments and what it returned
    users,      \* the users collection: the target_roles of each user
    user_run    \* the locals of a collect_jobs_for_all_users call

collect_vars == <<store, next_id, clock, run, pending, upstream, supply>>

client_vars == <<client, call, answers>>

user_vars == <<users, user_run>>

pure_vars == <<gap, role_skills, calc, cleanup>>

vars == <<store, next_id, clock, run, pending, upstream, supply,
          client, call, answers, scheduler, users, user_run, market, gap, role_skills, calc, cleanup>>

(***************************************************************************)
(* JobCollectionService: the pure steps.                                   *)
(***************************************************************************)
\* a rule that compares the title as it is written
ShouldSkipJobAsWritten(role, job_title) ==
    IF ~TruthyS(job_title) THEN FALSE
    ELSE /\ Contains(Lower(role), react)
         /\ ~Contains(Lower(role), native)
         /\ Contains(job_title, react_native)

\* _should_skip_job(role, job_title)
ShouldSkipJob(role, job_title) ==
    IF ~TruthyS(job_title) THEN FALSE
    ELSE /\ Contains(Lower(role), react)
         /\ ~Contains(Lower(role), native)
         /\ Contains(Lower(job_title), react_native)

\* the characters of the modelled texts, in code point order
CodePoints ==
    <<" ", "+", "-", "/", "A", "D", "N", "Q", "R", "_",
      "a", "b", "c", "d", "e", "f", "g", "h", "i", "j", "k", "l", "m",
      "n", "o", "p", "q", "r", "s", "t", "u", "v", "w", "x", "y", "z">>

\* ord(c)
Ord(c) == CHOOSE i \in 1..Len(CodePoints) : CodePoints[i] = c

\* a < b for two strs
RECURSIVE StrLess(_, _)
StrLess(a, b) ==
    IF b = <<>> THEN FALSE
    ELSE IF a = <<>> THEN TRUE
    ELSE IF Head(a) # Head(b) THEN Ord(Head(a)) < Ord(Head(b))
    ELSE StrLess(Tail(a), Tail(b))

\* sorted(list(unique_roles))
RECURSIVE SortedList(_)
SortedList(unique_roles) ==
    IF unique_roles = {} THEN <<>>
    ELSE LET least == CHOOSE a \in unique_roles :
                          \A b \in unique_roles \ {a} : StrLess(a, b)
         IN  <<least>> \o SortedList(unique_roles \ {least})

\* TECHNOLOGY_SLUG_MAP.get(slug): the entries for go, golang, nodejs, node-js,
\* ci-cd and cpp; None for a slug the table does not have
TECHNOLOGY_SLUG_MAP(slug) ==
    CASE slug = <<"g", "o">> -> <<"g", "o">>
      [] slug = <<"g", "o", "l", "a", "n", "g">> -> <<"g", "o">>
      [] slug = <<"n", "o", "d", "e", "j", "s">> -> <<"n", "o", "d", "e", "j", "s">>
      [] slug = <<"n", "o", "d", "e", "-", "j", "s">> -> <<"n", "o", "d", "e", "j", "s">>
      [] slug = <<"c", "i", "-", "c", "d">> -> <<"c", "i", "/", "c", "d">>
      [] slug = <<"c", "p", "p">> -> <<"c", "+", "+">>
      [] OTHER -> NONE_S

\* SKILL_CANONICAL_MAP.get(skill, skill): the entries for cpp, node-js, js, ts
SKILL_CANONICAL_MAP(skill) ==
    CASE skill = <<"c", "p", "p">> -> <<"c", "+", "+">>
      [] skill = <<"n", "o", "d", "e", "-", "j", "s">> -> <<"n", "o", "d", "e", "j", "s">>
      [] skill = <<"j", "s">> -> <<"j", "a", "v", "a", "s", "c", "r", "i", "p", "t">>
      [] skill = <<"t", "s">> -> <<"t", "y", "p", "e", "s", "c", "r", "i", "p", "t">>
      [] OTHER -> skill

\* str.replace(old, new) for single characters
Replace(s, old, new) == [i \in DOMAIN s |-> IF s[i] = old THEN new ELSE s[i]]

\* map_technology_slugs line 474
Fallback(slug_normalized) ==
    Replace(Replace(slug_normalized, "-", " "), "_", " ")

\* map_technology_slugs lines 468-477: the canonical name of one kept slug
Canonical(slug) ==
    LET slug_normalized == Lower(Strip(slug))
        canonical == TECHNOLOGY_SLUG_MAP(slug_normalized)
    IN  SKILL_CANONICAL_MAP(IF TruthyS(canonical) THEN canonical
                            ELSE Fallback(slug_normalized))

\* map_technology_slugs
MapTechnologySlugs(slugs) ==
    LET kept == {i \in DOMAIN slugs :
                    TruthyS(slugs[i]) /\ TruthyS(Lower(Strip(slugs[i])))}
    IN  SortedList({Canonical(slugs[i]) : i \in kept})

\* a mapping without the identifier check: nothing is dropped
KeepsUnidentified(mapped_job) == FALSE

\* the identifier check that ends _map_job: both url and job_id falsy
LacksIdentifier(mapped_job) == ~Truthy(mapped_job.url) /\ ~Truthy(mapped_job.job_id)

\* _map_job lines 473-474: the job id a raw posting yields
JobIdOf(job) ==
    LET job_id_raw == Or(job.job_id, job.id)
    IN  IF job_id_raw # NONE THEN Str(job_id_raw) ELSE NONE

\* _map_job line 484: the url a raw posting yields
UrlOf(job) == Or(Or(job.job_url, job.url), job.detail_url)

\* _map_job(role, search_location_label, job): {} stands for the None it returns
MapJob(role, job, now) ==
    LET mapped_job == [job_id |-> JobIdOf(job),
                       title |-> OrS(OrS(job.job_title, job.title), role),
                       skills |-> MapTechnologySlugs(job.technology_slugs),
                       technology_slugs |-> job.technology_slugs,
                       url |-> UrlOf(job),
                       search_keywords |-> role,
                       scraped_at |-> now]
    IN  IF LacksIdentifier(mapped_job) THEN {} ELSE {mapped_job}

(***************************************************************************)
(* JobPosting: the collection, its unique indexes and upsert_job.          *)
(***************************************************************************)
\* a collection without unique indexes: no write is refused
NoUniqueIndex(docs, d) == FALSE

\* Settings.indexes: url is unique; job_id is unique among the documents that
\* have one (sparse).  TRUE when writing document d into docs breaks an index.
UniqueIndexViolated(docs, d) ==
    \E e \in docs :
        /\ e.id # d.id
        /\ \/ e.url = d.url
           \/ d.job_id # NONE /\ e.job_id = d.job_id

\* the field declarations: url is a required str, job_id is Optional[str]
ValidDocument(job_data) == job_data.url # NONE

\* find_one({"job_id": v}): the documents it may return
FindByJobIdMatches(docs, v) == {e \in docs : e.job_id = v}

\* an upsert without the url fallback: the url lookup finds nothing
NoUrlFallback(docs, v) == {}

\* find_one({"url": v}): the documents it may return
FindByUrlMatches(docs, v) == {e \in docs : e.url = v}

\* upsert_job lines 66-70: which lookup comes first, and which follows a
\* job_id lookup that answered existing_job
FirstLookup(job_data) ==
    IF Truthy(job_data.job_id) THEN "find_job_id"
    ELSE IF Truthy(job_data.url) THEN "find_url"
    ELSE "write"

AfterJobIdLookup(job_data, existing_job) ==
    IF existing_job = {} /\ Truthy(job_data.url) THEN "find_url" ELSE "write"

\* an update that leaves the skills of the found document as they were
OverwriteKeepingSkills(existing_job, job_data) ==
    [existing_job EXCEPT !.job_id = job_data.job_id,
                         !.url = job_data.url,
                         !.title = job_data.title,
                         !.technology_slugs = job_data.technology_slugs,
                         !.search_keywords = job_data.search_keywords,
                         !.updated_at = job_data.updated_at]

\* the loop of upsert_job that copies job_data onto the found document:
\* every key but scraped_at
Overwrite(existing_job, job_data) ==
    [existing_job EXCEPT !.job_id = job_data.job_id,
                         !.skills = job_data.skills,
                         !.technology_slugs = job_data.technology_slugs,
                         !.url = job_data.url,
                         !.title = job_data.title,
                         !.search_keywords = job_data.search_keywords,
                         !.updated_at = job_data.updated_at]

\* cls(**job_data), as insert() stores it under a fresh _id
NewDocument(job_data, id) ==
    [id |-> id, job_id |-> job_data.job_id, url |-> job_data.url,
     title |-> job_data.title, search_keywords |-> job_data.search_keywords,
     skills |-> job_data.skills, technology_slugs |-> job_data.technology_slugs,
     scraped_at |-> job_data.scraped_at,
     updated_at |-> job_data.updated_at]

(***************************************************************************)
(* collect_jobs_for_roles: the code between two suspension points runs     *)
(* as one step.  s is the record of the call's locals.                     *)
(***************************************************************************)
\* n + k, held at MaxCount
Plus(n, k) == IF n + k >= MaxCount THEN MaxCount ELSE n + k

\* a negative supply stands for an upstream that never runs out of postings
PageSizes(left) == 0..(IF left < 0 THEN MaxPage ELSE Min(MaxPage, left))
Deliver(left, n) == IF left < 0 THEN left ELSE left - n

\* lines 365-369: the role's summary entry, then on to the next role
FinishRole(s) ==
    [s EXCEPT !.summary = (s.role_label :>
                              [jobs_collected |-> s.total_collected,
                               pages_fetched |-> s.total_pages,
                               credits_tracked |-> s.total_credits_used]) @@ @,
              !.role_idx = @ + 1,
              !.pc = "role_loop"]

\* lines 238-251: the while test and the payload of the next search
LoopHead(s) ==
    IF s.total_collected < s.per_role_limit
    THEN [s EXCEPT !.request = [page |-> s.page,
                                limit |-> Max(1, Min(s.per_page_limit,
                                                     s.per_role_limit - s.total_collected))],
                   !.searched = @ \cup {s.role_idx},
                   !.pc = "search"]
    ELSE FinishRole(s)

\* a loop that tests the target only at the end of a page
BreaksAtPageEnd(s, check_break) ==
    IF s.data_left > 0 THEN [s EXCEPT !.pc = "jobs"]
    ELSE IF s.total_collected >= s.per_role_limit THEN FinishRole(s)
    ELSE IF s.has_more = "False" THEN FinishRole(s)
    ELSE LoopHead([s EXCEPT !.page = Plus(@, 1)])

\* lines 343-363: what follows one posting; check_break is FALSE after a
\* `continue`, which skips the test of line 343
AfterJob(s, check_break) ==
    IF check_break /\ s.total_collected >= s.per_role_limit THEN FinishRole(s)
    ELSE IF s.data_left > 0 THEN [s EXCEPT !.pc = "jobs"]
    ELSE IF s.total_collected >= s.per_role_limit THEN FinishRole(s)
    ELSE IF s.has_more = "False" THEN FinishRole(s)
    ELSE LoopHead([s EXCEPT !.page = Plus(@, 1)])

\* searched and failed are history: the positions in the role list for which
\* a search was sent, and those whose search raised.

\* the errors search_jobs raises to the collection loop
SearchErrors ==
    {"TheirStackAuthenticationError", "TheirStackRetryableError", "TheirStackClientError"}

\* a loop whose only except clause names the authentication error
HandlesAuthOnly(e) == e = "TheirStackAuthenticationError"

\* lines 298-306: the except clauses around search_jobs (the two named error
\* classes, then Exception, which every error of the client derives from);
\* each of them breaks out of the role's paging loop
HandledInLoop(e) ==
    \/ e = "TheirStackAuthenticationError"
    \/ e = "TheirStackRetryableError"
    \/ e \in SearchErrors

IdleRun(roles, per_role_limit) ==
    [pc |-> "idle", roles |-> roles, per_role_limit |-> per_role_limit,
     role_idx |-> 1, role_label |-> <<>>, page |-> 1, per_page_limit |-> 1,
     total_collected |-> 0, total_pages |-> 0, total_credits_used |-> 0,
     request |-> [page |-> 0, limit |-> 0], search_error |-> NONE,
     searched |-> {}, failed |-> {},
     data_left |-> 0, data_len |-> 0, has_more |-> NONE,
     job |-> {}, mapped |-> {}, existing |-> {}, upsert |-> NONE,
     summary |-> <<>>]

\* the trigger fires: collect_jobs_for_roles is called (lines 214-220)
Trigger(r) ==
    /\ r \in pending
    /\ run[r].pc = "idle"
    /\ pending' = pending \ {r}
    /\ run' = [run EXCEPT ![r].pc = IF run[r].roles = <<>> THEN "returned" ELSE "role_loop"]
    /\ UNCHANGED <<store, next_id, clock, upstream, supply>>
    /\ UNCHANGED <<client_vars, scheduler, user_vars, market, pure_vars>>

\* lines 222-236: the next role of the list, or the return of the summary
NextRole(r) ==
    LET s == run[r] IN
    /\ s.pc = "role_loop"
    /\ run' = [run EXCEPT ![r] =
          IF s.role_idx > Len(s.roles) THEN [s EXCEPT !.pc = "returned"]
          ELSE IF Strip(s.roles[s.role_idx]) = <<>> THEN [s EXCEPT !.role_idx = @ + 1]
          ELSE LoopHead([s EXCEPT
                  !.role_label = Strip(s.roles[s.role_idx]),
                  !.total_collected = 0, !.total_pages = 0, !.total_credits_used = 0,
                  !.page = 1,
                  !.per_page_limit = Max(1, Min(max_jobs_per_search, s.per_role_limit)),
                  !.search_error = NONE])]
    /\ UNCHANGED <<store, next_id, clock, pending, upstream, supply>>
    /\ UNCHANGED <<client_vars, scheduler, user_vars, market, pure_vars>>

\* lines 296-306: search_jobs raises
SearchFails(r) ==
    LET s == run[r] IN
    /\ s.pc = "search"
    /\ \E e \in SearchErrors :
          run' = [run EXCEPT ![r] =
                IF HandledInLoop(e)
                THEN FinishRole([s EXCEPT !.search_error = e,
                                          !.failed = @ \cup {s.role_idx}])
                ELSE [s EXCEPT !.search_error = e, !.pc = "raised"]]
    /\ UNCHANGED <<store, next_id, clock, pending, upstream, supply>>
    /\ UNCHANGED <<client_vars, scheduler, user_vars, market, pure_vars>>

\* lines 308-326: search_jobs returns a page of n postings
SearchReturns(r) ==
    LET s == run[r] IN
    /\ s.pc = "search"
    /\ \E n \in PageSizes(supply), metadata \in upstream.metadata :
          /\ supply' = Deliver(supply, n)
          /\ run' = [run EXCEPT ![r] =
                IF n = 0 THEN FinishRole(s)
                ELSE [s EXCEPT !.total_pages = Plus(@, 1),
                               !.total_credits_used = Plus(@, metadata.credits_used),
                               !.data_left = n, !.data_len = n,
                               !.has_more = metadata.has_more,
                               !.pc = "jobs"]]
    /\ UNCHANGED <<store, next_id, clock, pending, upstream>>
    /\ UNCHANGED <<client_vars, scheduler, user_vars, market, pure_vars>>

\* lines 328-338 and upsert_job lines 58-66: the next posting of the page is
\* skipped, rejected by the mapping, or handed to upsert_job
NextJob(r) ==
    LET s == run[r] IN
    /\ s.pc = "jobs"
    /\ \E job \in upstream.postings :
          LET s1 == [s EXCEPT !.data_left = @ - 1, !.job = {job},
                              !.mapped = {}, !.existing = {}, !.upsert = NONE]
              mapped == MapJob(s.role_label, job, clock)
          IN  run' = [run EXCEPT ![r] =
                IF ShouldSkipJob(s.role_label, OrS(job.job_title, job.title))
                THEN AfterJob(s1, FALSE)
                ELSE IF mapped = {} THEN AfterJob(s1, FALSE)
                ELSE LET m == CHOOSE m \in mapped : TRUE
                         job_data == [job_id |-> m.job_id, url |-> m.url, title |-> m.title,
                                      skills |-> m.skills,
                                      technology_slugs |-> m.technology_slugs,
                                      search_keywords |-> m.search_keywords,
                                      scraped_at |-> m.scraped_at, updated_at |-> clock]
                     IN  [s1 EXCEPT !.mapped = {job_data},
                                    !.pc = FirstLookup(job_data)]]
    /\ clock' = Plus(clock, 1)
    /\ UNCHANGED <<store, next_id, pending, upstream, supply>>
    /\ UNCHANGED <<client_vars, scheduler, user_vars, market, pure_vars>>

\* upsert_job line 67: find_one by job_id answers
FindByJobId(r) ==
    LET s == run[r]
        job_data == CHOOSE m \in s.mapped : TRUE
        found == FindByJobIdMatches(store, job_data.job_id)
    IN
    /\ s.pc = "find_job_id"
    /\ \E existing_job \in (IF found = {} THEN {{}} ELSE {{e} : e \in found}) :
          run' = [run EXCEPT ![r] =
                [s EXCEPT !.existing = existing_job,
                          !.pc = AfterJobIdLookup(job_data, existing_job)]]
    /\ UNCHANGED <<store, next_id, clock, pending, upstream, supply>>
    /\ UNCHANGED <<client_vars, scheduler, user_vars, market, pure_vars>>

\* upsert_job line 70: find_one by url answers
FindByUrl(r) ==
    LET s == run[r]
        job_data == CHOOSE m \in s.mapped : TRUE
        found == FindByUrlMatches(store, job_data.url)
    IN
    /\ s.pc = "find_url"
    /\ \E existing_job \in (IF found = {} THEN {{}} ELSE {{e} : e \in found}) :
          run' = [run EXCEPT ![r] = [s EXCEPT !.existing = existing_job, !.pc = "write"]]
    /\ UNCHANGED <<store, next_id, clock, pending, upstream, supply>>
    /\ UNCHANGED <<client_vars, scheduler, user_vars, market, pure_vars>>

\* upsert_job lines 72-82 and the caller's lines 339-344: save() or insert()
\* answers; the posting is counted unless the write raised
Write(r) ==
    LET s == run[r]
        job_data == CHOOSE m \in s.mapped : TRUE
        updated == Overwrite(CHOOSE e \in s.existing : TRUE, job_data)
        new_job == NewDocument(job_data, next_id)
        counted == [s EXCEPT !.total_collected = @ + 1]
    IN
    /\ s.pc = "write"
    /\ IF s.existing # {}
       THEN IF UniqueIndexViolated(store, updated)
            THEN /\ run' = [run EXCEPT ![r] =
                        AfterJob([s EXCEPT !.upsert = "DuplicateKeyError"], TRUE)]
                 /\ UNCHANGED <<store, next_id>>
            ELSE /\ store' = {e \in store : e.id # updated.id} \cup {updated}
                 /\ run' = [run EXCEPT ![r] =
                        AfterJob([counted EXCEPT !.upsert = "saved"], TRUE)]
                 /\ UNCHANGED next_id
       ELSE IF ~ValidDocument(job_data)
            THEN /\ run' = [run EXCEPT ![r] =
                        AfterJob([s EXCEPT !.upsert = "ValidationError"], TRUE)]
                 /\ UNCHANGED <<store, next_id>>
            ELSE IF UniqueIndexViolated(store, new_job)
            THEN /\ run' = [run EXCEPT ![r] =
                        AfterJob([s EXCEPT !.upsert = "DuplicateKeyError"], TRUE)]
                 /\ UNCHANGED <<store, next_id>>
            ELSE /\ store' = store \cup {new_job}
                 /\ next_id' = next_id + 1
                 /\ run' = [run EXCEPT ![r] =
                        AfterJob([counted EXCEPT !.upsert = "inserted"], TRUE)]
    /\ UNCHANGED <<clock, pending, upstream, supply>>
    /\ UNCHANGED <<client_vars, scheduler, user_vars, market, pure_vars>>

\* the role lists a caller passes: empty, blank only, one role, two roles, a
\* blank between two roles, the same role twice
RoleLists ==
    { <<>>, <<RoleBlank>>, <<RoleReact>>, <<RoleReact, RolePaddedQA>>,
      <<RolePaddedQA, RoleBlank, RoleReact>>, <<RoleReact, RoleReact>> }

CollectStep ==
    \E r \in Runners :
        \/ Trigger(r)
        \/ NextRole(r)
        \/ SearchFails(r)
        \/ SearchReturns(r)
        \/ NextJob(r)
        \/ FindByJobId(r)
        \/ FindByUrl(r)
        \/ Write(r)

(***************************************************************************)
(* TheirStackClient: search_jobs and the retry around the POST.            *)
(***************************************************************************)
\* settings.their_stack_max_retries: the attempt bound the retry decorator is
\* built with when the class is defined
their_stack_max_retries == 3
\* largest max_retries a client is constructed with
MaxRetriesArg == 4

\* most calls of close() on one client
MaxCloses == 1

\* the answer of a POST that raised httpx.RequestError: no status at all
RequestError == 0

\* the answers the upstream can give: a transport failure or an HTTP status
Answers == {RequestError, 200, 400, 401, 403, 404, 429, 500, 503}

\* the body of a 2xx answer: a JSON object with a "data" list, JSON of
\* another shape, or text that is not JSON
Bodies == {"jobs object", "other json", "not json"}

\* response.json(): whether it raises ValueError
JsonFails(body) == body = "not json"

Callers == {"a", "b"}

\* a payload dict: the keys it has, those of them whose value is None, and
\* the numbers under "page" and "limit" (0 where the key is absent or None)
Payload(keys, nulls, page, limit) ==
    [keys |-> keys, nulls |-> nulls, page |-> page, limit |-> limit]

\* the payloads a caller may pass: empty, without a date filter, with each of
\* the date filters, with a date filter that is None, with and without
\* paging keys, with a limit below and above settings.max_jobs_per_search,
\* with a maximum age next to a date range
Payloads ==
    { Payload({}, {}, 0, 0),
      Payload({"job_title_or"}, {}, 0, 0),
      Payload({"job_title_or", "page", "limit"}, {}, 1, 1),
      Payload({"posted_at_max_age_days"}, {"posted_at_max_age_days"}, 0, 0),
      Payload({"posted_at_max_age_days"}, {}, 0, 0),
      Payload({"job_title_or", "posted_at_gte"}, {}, 0, 0),
      Payload({"posted_at_lte", "page"}, {}, 3, 0),
      Payload({"posted_at_max_age_days", "offset"}, {}, 0, 0),
      Payload({"posted_at_max_age_days", "page", "limit"}, {}, 2, 1),
      Payload({"posted_at_max_age_days", "limit"}, {}, 0, max_jobs_per_search + 1),
      Payload({"posted_at_max_age_days", "posted_at_gte", "posted_at_lte"}, {}, 0, 0) }

\* the keys _validate_payload looks for
DateFilters == {"posted_at_max_age_days", "posted_at_gte", "posted_at_lte"}

\* a search_jobs without _validate_payload
NoValidation(payload) == NONE

\* _validate_payload: the ValueError it raises, or NONE
ValidatePayload(payload) ==
    IF payload.keys = {} THEN "ValueError"
    ELSE IF ~\E key \in DateFilters : key \in payload.keys /\ key \notin payload.nulls
    THEN "ValueError"
    ELSE NONE

\* search_jobs lines 118-120: the pagination defaults
WithDefaults(payload) ==
    LET paged == IF "page" \notin payload.keys /\ "offset" \notin payload.keys
                 THEN [payload EXCEPT !.keys = @ \cup {"page"}, !.page = 1]
                 ELSE payload
    IN  IF "limit" \notin paged.keys
        THEN [paged EXCEPT !.keys = @ \cup {"limit"}, !.limit = max_jobs_per_search]
        ELSE paged

\* an attempt that takes every 4xx other than 401 and 403 for retryable
ClientErrorsRetryable(answer) ==
    IF answer = RequestError THEN "TheirStackRetryableError"
    ELSE IF answer \in {401, 403} THEN "TheirStackAuthenticationError"
    ELSE IF 400 <= answer /\ answer < 600 THEN "TheirStackRetryableError"
    ELSE "response"

\* an attempt that takes a transport failure for a client error
TransportErrorsFatal(answer) ==
    IF answer = RequestError THEN "TheirStackClientError"
    ELSE IF answer \in {401, 403} THEN "TheirStackAuthenticationError"
    ELSE IF answer \in {429} \/ (500 <= answer /\ answer < 600) THEN "TheirStackRetryableError"
    ELSE IF 400 <= answer /\ answer < 500 THEN "TheirStackClientError"
    ELSE "response"

\* _post_with_retry lines 83-111: what one attempt raises for an answer, or
\* "response" when it returns the response
Classify(answer) ==
    IF answer = RequestError THEN "TheirStackRetryableError"
    ELSE IF answer \in {401, 403} THEN "TheirStackAuthenticationError"
    ELSE IF answer \in {429} \/ (500 <= answer /\ answer < 600) THEN "TheirStackRetryableError"
    ELSE IF 400 <= answer /\ answer < 500 THEN "TheirStackClientError"
    ELSE "response"

\* a retry condition that does not look at the error class
RetryOnAnyError(error) == error # "response"

\* retry_if_exception_type(TheirStackRetryableError)
RetryOn(error) == error = "TheirStackRetryableError"

\* a stop condition that counts retries instead of attempts
StopAfterRetries(attempt_number) == attempt_number > their_stack_max_retries

\* stop_after_attempt(settings.their_stack_max_retries)
StopAfterAttempt(attempt_number) == attempt_number >= their_stack_max_retries

\* a search_jobs call: given is the payload as the caller passed it, payload
\* the dict after the defaults, which every attempt sends
IdleCall ==
    [pc |-> "idle", given |-> Payload({}, {}, 0, 0),
     payload |-> Payload({}, {}, 0, 0), attempt_number |-> 0,
     session |-> 0, http_log |-> <<>>, body |-> NONE, outcome |-> NONE,
     logged_retries |-> 0]

\* search_jobs lines 115-120: validation and defaults, before any I/O
SearchJobs(c) ==
    /\ call[c].pc = "idle"
    /\ \E payload \in Payloads :
          call' = [call EXCEPT ![c] =
              IF ValidatePayload(payload) # NONE
              THEN [@ EXCEPT !.pc = "done", !.given = payload, !.payload = payload,
                             !.outcome = ValidatePayload(payload)]
              ELSE [@ EXCEPT !.pc = "attempt", !.given = payload,
                             !.payload = WithDefaults(payload)]]
    /\ UNCHANGED <<client, answers, collect_vars, scheduler, user_vars, market, pure_vars>>

\* a _get_client that builds a session for every call
AlwaysNeedsSession(cl) == TRUE

\* _get_client line 44: if self._client is None
NeedsSession(cl) == cl.session = 0

\* _get_client and the POST of one attempt: the session is created on first
\* use, under the lock, and the request goes out
Post(c) ==
    /\ call[c].pc = "attempt"
    /\ client' = IF NeedsSession(client)
                 THEN [client EXCEPT !.session = client.sessions_created + 1,
                                     !.sessions_created = @ + 1]
                 ELSE client
    /\ call' = [call EXCEPT ![c].pc = "posting",
                            ![c].attempt_number = @ + 1,
                            ![c].session = client'.session]
    /\ UNCHANGED <<answers, collect_vars, scheduler, user_vars, market, pure_vars>>

\* the answer arrives: _post_with_retry lines 85-111, the retry decision, and
\* search_jobs lines 124-140
Respond(c) ==
    LET s == call[c] IN
    /\ s.pc = "posting"
    /\ \E answer \in answers, body \in Bodies :
          LET error == Classify(answer)
              logged == [s EXCEPT !.http_log = Append(@, answer)]
          IN  call' = [call EXCEPT ![c] =
                IF error = "response"
                THEN [logged EXCEPT !.pc = "done",
                                    !.body = body,
                                    !.outcome = IF JsonFails(body)
                                                THEN "TheirStackClientError"
                                                ELSE "data"]
                ELSE IF RetryOn(error) /\ ~StopAfterAttempt(s.attempt_number)
                THEN [logged EXCEPT !.pc = "attempt"]
                ELSE [logged EXCEPT !.pc = "done", !.outcome = error,
                                    !.logged_retries =
                                        IF error = "TheirStackRetryableError"
                                        THEN client.max_retries ELSE 0]]
    /\ UNCHANGED <<client, answers, collect_vars, scheduler, user_vars, market, pure_vars>>

ClientStep == \E c \in Callers : SearchJobs(c) \/ Post(c) \/ Respond(c)

\* close(): under the lock, the session is closed and forgotten
Close ==
    /\ client.closes < MaxCloses
    /\ client' = [client EXCEPT !.session = 0, !.closes = @ + 1]
    /\ UNCHANGED <<call, answers, collect_vars, scheduler, user_vars, market, pure_vars>>

InitClientVars(who, max_retries_args, upstream_answers) ==
    /\ \E n \in max_retries_args :
          client = [session |-> 0, sessions_created |-> 0, closes |-> 0,
                    max_retries |-> n]
    /\ call = [c \in Callers |-> IF c \in who THEN IdleCall
                                 ELSE [IdleCall EXCEPT !.pc = "no call"]]
    /\ answers = upstream_answers

(***************************************************************************)
(* SchedulerService over an AsyncIOScheduler.                              *)
(***************************************************************************)
\* max_instances of both registered jobs
max_instances == 1
\* most calls of start_scheduler, stop_scheduler and shutdown_event
MaxCalls == 3
\* most firings of one job's trigger
MaxFirings == 2

\* _collection_job_id and _cleanup_job_id
JobIds == {"daily-job-collection", "weekly-job-cleanup"}

\* scheduler.add_job(..., id=id, replace_existing=...): the job list after it
AddJob(jobs, id, replace_existing) ==
    IF replace_existing
    THEN SelectSeq(jobs, LAMBDA j : j # id) \o <<id>>
    ELSE jobs \o <<id>>

\* _register_jobs: both jobs are added with replace_existing=True
RegisterJobs(jobs) ==
    AddJob(AddJob(jobs, "daily-job-collection", TRUE), "weekly-job-cleanup", TRUE)

\* whether the value of scheduler.shutdown(wait=False) can be awaited:
\* AsyncIOScheduler.shutdown is a plain method that returns None
ShutdownIsAwaitable == FALSE

\* a start_scheduler without the _started test
NeverAlreadyStarted(sch) == FALSE

\* start_scheduler returns at once when _started is set
AlreadyStarted(sch) == sch.started

\* start_scheduler: the service after the call, with the call's result logged
StartScheduler(sch) ==
    IF AlreadyStarted(sch)
    THEN [sch EXCEPT !.calls = Append(@, [op |-> "start", result |-> "returned"])]
    ELSE IF sch.state = "running"
    THEN [sch EXCEPT !.jobs = RegisterJobs(@),
                     !.calls = Append(@, [op |-> "start",
                                          result |-> "SchedulerAlreadyRunningError"])]
    ELSE [sch EXCEPT !.jobs = RegisterJobs(@),
                     !.state = "running",
                     !.started = TRUE,
                     !.calls = Append(@, [op |-> "start", result |-> "returned"])]

\* stop_scheduler, called by op: shutdown(wait=False) stops the scheduler and
\* drops its jobs without waiting for running instances; its value is then
\* awaited, and _started is cleared only after that await
StopScheduler(sch, op) ==
    IF ~sch.started
    THEN [sch EXCEPT !.calls = Append(@, [op |-> op, result |-> "returned"])]
    ELSE IF ShutdownIsAwaitable
    THEN [sch EXCEPT !.state = "stopped", !.jobs = <<>>, !.started = FALSE,
                     !.calls = Append(@, [op |-> op, result |-> "returned"])]
    ELSE [sch EXCEPT !.state = "stopped", !.jobs = <<>>,
                     !.calls = Append(@, [op |-> op, result |-> "TypeError"])]

\* an executor without an instance limit
NoInstanceLimit(sch, id) == TRUE

\* the executor's test before it runs a fired job
MayRun(sch, id) == sch.instances[id] < max_instances

Start ==
    /\ Len(scheduler.calls) < MaxCalls
    /\ scheduler' = StartScheduler(scheduler)
    /\ UNCHANGED <<collect_vars, client_vars, user_vars, market, pure_vars>>

Stop ==
    /\ Len(scheduler.calls) < MaxCalls
    /\ scheduler' = StopScheduler(scheduler, "stop")
    /\ UNCHANGED <<collect_vars, client_vars, user_vars, market, pure_vars>>

\* main.shutdown_event: stop_scheduler inside try/except Exception
ShutdownEvent ==
    /\ Len(scheduler.calls) < MaxCalls
    /\ "scheduler" \in scheduler.app_state
    /\ scheduler' = StopScheduler(scheduler, "shutdown_event")
    /\ UNCHANGED <<collect_vars, client_vars, user_vars, market, pure_vars>>

\* the trigger of job id fires: the job runs unless max_instances of it run
Fire(id) ==
    /\ scheduler.state = "running"
    /\ \E i \in 1..Len(scheduler.jobs) : scheduler.jobs[i] = id
    /\ scheduler.fired[id] < MaxFirings
    /\ scheduler' =
          IF MayRun(scheduler, id)
          THEN [scheduler EXCEPT !.fired[id] = @ + 1, !.instances[id] = @ + 1,
                                 !.ran[id] = @ + 1]
          ELSE [scheduler EXCEPT !.fired[id] = @ + 1, !.skipped[id] = @ + 1]
    /\ UNCHANGED <<collect_vars, client_vars, user_vars, market, pure_vars>>

\* what the call inside a wrapper may raise: the two error classes the
\* wrappers name, and any other class derived from Exception
BodyErrors == {"TheirStackAuthenticationError", "TheirStackRetryableError",
               "Exception"}

\* what the call inside a wrapper ends with: its value or an error
BodyOutcomes == {"value"} \cup BodyErrors

\* a wrapper whose except clauses name only the two TheirStack errors
CatchesNamedOnly(error) ==
    error \in {"TheirStackAuthenticationError", "TheirStackRetryableError"}

\* the except clauses of _run_collection_job and _run_user_based_collection
CaughtAtBoundary(error) ==
    \/ error = "TheirStackAuthenticationError"
    \/ error = "TheirStackRetryableError"
    \/ error \in BodyErrors

\* the try of both collection wrappers: the summary handed on, {} after a
\* caught error, or the error when no clause catches it
GuardedCollection(body) ==
    IF body = "value" THEN [body |-> body, result |-> "returned", value |-> "summary"]
    ELSE IF CaughtAtBoundary(body)
    THEN [body |-> body, result |-> "returned", value |-> "{}"]
    ELSE [body |-> body, result |-> body, value |-> NONE]

\* _run_collection_job(roles, locations): no roles, no run
RunCollectionJob(roles, body) ==
    IF roles = <<>> THEN [body |-> NONE, result |-> "returned", value |-> "{}"]
    ELSE GuardedCollection(body)

\* _run_user_based_collection()
RunUserBasedCollection(body) == GuardedCollection(body)

\* _scheduled_collection_wrapper()
ScheduledCollectionWrapper(sch, body) ==
    IF sch.use_user_roles THEN RunUserBasedCollection(body)
    ELSE RunCollectionJob(sch.roles, body)

\* the method _scheduled_collection_wrapper calls, and the lists it passes
ScheduledCall(sch) ==
    IF sch.use_user_roles
    THEN [path |-> "_run_user_based_collection", roles |-> <<>>, locations |-> <<>>]
    ELSE [path |-> "_run_collection_job", roles |-> sch.roles,
          locations |-> sch.locations]

\* no collection method called, and no argument given
NoCall == [path |-> NONE, roles |-> <<>>, locations |-> <<>>]
NoArguments == [roles |-> <<>>, locations |-> <<>>]

\* a trigger that passes on the lists it was given
GivenOnly(given, configured) == given

\* `given or configured`: the configured list when none, or an empty one, is
\* given
Target(given, configured) == IF given # <<>> THEN given ELSE configured

\* _scheduled_cleanup_wrapper(): try / except Exception around cleanup_old_jobs
ScheduledCleanupWrapper(body) ==
    IF body = "value" THEN [body |-> body, result |-> "returned", value |-> NONE]
    ELSE IF body \in BodyErrors
    THEN [body |-> body, result |-> "returned", value |-> NONE]
    ELSE [body |-> body, result |-> body, value |-> NONE]

\* a running instance of job id ends: what its wrapper hands to the
\* scheduler; last keeps the wrapper that ended most recently and its outcome
Finish(id) ==
    /\ scheduler.instances[id] > 0
    /\ \E body \in BodyOutcomes :
          scheduler' = [scheduler EXCEPT
              !.instances[id] = @ - 1,
              !.last = [by |-> id,
                        given |-> NoArguments,
                        called |-> IF id = "daily-job-collection"
                                   THEN ScheduledCall(scheduler)
                                   ELSE NoCall,
                        outcome |-> IF id = "daily-job-collection"
                                    THEN ScheduledCollectionWrapper(scheduler, body)
                                    ELSE ScheduledCleanupWrapper(body)]]
    /\ UNCHANGED <<collect_vars, client_vars, user_vars, market, pure_vars>>

\* trigger_manual_collection(roles, locations, ...): roles or self.roles and
\* locations or self.locations, then _run_collection_job; an empty list
\* stands for an argument left out
TriggerManual(roles_args, locations_args) ==
    /\ \E roles \in roles_args, locations \in locations_args, body \in BodyOutcomes :
          LET target_roles == Target(roles, scheduler.roles)
              target_locations == Target(locations, scheduler.locations)
          IN  scheduler' = [scheduler EXCEPT
                  !.last = [by |-> "trigger_manual_collection",
                            given |-> [roles |-> roles, locations |-> locations],
                            called |-> [path |-> "_run_collection_job",
                                        roles |-> target_roles,
                                        locations |-> target_locations],
                            outcome |-> RunCollectionJob(target_roles, body)]]
    /\ UNCHANGED <<collect_vars, client_vars, user_vars, market, pure_vars>>

\* callers that give no locations
TriggerManualCollection == TriggerManual({<<>>, <<RoleReact>>}, {<<>>})

\* callers that give roles, locations, both or neither
TriggerManualAnyArguments ==
    TriggerManual({<<>>, <<RoleReact>>}, {<<>>, <<"Bergen">>})

SchedulerStep ==
    \/ Start
    \/ Stop
    \/ ShutdownEvent
    \/ TriggerManualCollection
    \/ \E id \in JobIds : Fire(id) \/ Finish(id)

\* SchedulerService.__init__, and main.startup_event storing it in app.state
SchedulerService(roles_args, locations_args, use_user_roles_args) ==
    \E roles \in roles_args, locations \in locations_args,
       use_user_roles \in use_user_roles_args :
    scheduler = [started |-> FALSE, state |-> "stopped", jobs |-> <<>>,
                 roles |-> roles, locations |-> locations,
                 use_user_roles |-> use_user_roles,
                 last |-> [by |-> NONE, given |-> NoArguments, called |-> NoCall,
                           outcome |-> [body |-> NONE, result |-> NONE, value |-> NONE]],
                 instances |-> [id \in JobIds |-> 0],
                 fired |-> [id \in JobIds |-> 0],
                 ran |-> [id \in JobIds |-> 0],
                 skipped |-> [id \in JobIds |-> 0],
                 app_state |-> {"job_collection_service", "scheduler"},
                 calls |-> <<>>]

\* a service built without locations
InitScheduler(roles_args, use_user_roles_args) ==
    SchedulerService(roles_args, {<<>>}, use_user_roles_args)

(***************************************************************************)
(* UserJobCollectionService.collect_jobs_for_all_users.                    *)
(***************************************************************************)
\* largest data_freshness_days a caller passes, in ticks of the clock
MaxFreshness == 2

\* lines 42-45: the union of the target_roles of the users that have some
UniqueRoles(all_users) ==
    UNION {{all_users[u][i] : i \in 1..Len(all_users[u])} : u \in 1..Len(all_users)}

\* a freshness filter that takes no role for fresh
NothingIsFresh(docs, role, cutoff_date) == {}

\* find_one({"search_keywords": role, "scraped_at": {"$gte": cutoff_date}}):
\* the documents it may return
RecentJobMatches(docs, role, cutoff_date) ==
    {d \in docs : d.search_keywords = role /\ d.scraped_at >= cutoff_date}

\* the users collections of the model: no user, a user without roles, roles
\* shared between users, a role twice in one list, a padded and a blank role
UserBases ==
    { <<>>,
      << <<>> >>,
      << <<RoleQA, RoleReact>>, <<RoleQA>> >>,
      << <<RoleReact, RoleReact>>, <<>> >>,
      << <<RolePaddedQA>>, <<RoleQA>> >>,
      << <<RoleBlank, RoleQA>> >> }

\* a stored posting found under role and first scraped at scraped_at
StoredFor(id, url, role, scraped_at) ==
    NewDocument([job_id |-> NONE, url |-> url, title |-> TitleDev,
                 skills |-> <<>>, technology_slugs |-> <<>>,
                 search_keywords |-> role, scraped_at |-> scraped_at,
                 updated_at |-> scraped_at], id)

IdleUserRun(jobs_per_role, data_freshness_days) ==
    [pc |-> "idle", jobs_per_role |-> jobs_per_role,
     data_freshness_days |-> data_freshness_days,
     cutoff_date |-> 0, roles_list |-> <<>>, idx |-> 1,
     roles_to_fetch |-> <<>>, result |-> NONE]

\* no user-driven collection
NoUserRun ==
    /\ users = <<>>
    /\ user_run = IdleUserRun(1, 1)

\* lines 61-79 after the filter: nothing to fetch, or the call of
\* collect_jobs_for_roles (which runs to its for loop, lines 214-222)
AfterFilter(u) ==
    IF u.idx <= Len(u.roles_list) THEN u
    ELSE IF u.roles_to_fetch = <<>> THEN [u EXCEPT !.pc = "returned", !.result = "{}"]
    ELSE [u EXCEPT !.pc = "collecting"]

\* the orchestrator's run after the step that took the call to u
CollectionCalled(u, s) ==
    IF u.pc = "collecting"
    THEN [IdleRun(u.roles_to_fetch, u.jobs_per_role) EXCEPT !.pc = "role_loop"]
    ELSE s

\* collect_jobs_for_all_users lines 40-59 and 146-151: the users are read,
\* the distinct roles sorted, and the first freshness lookup sent
CollectJobsForAllUsers ==
    /\ user_run.pc = "idle"
    /\ LET unique_roles == UniqueRoles(users) IN
       user_run' =
          IF unique_roles = {}
          THEN [user_run EXCEPT !.pc = "returned", !.result = "{}"]
          ELSE [user_run EXCEPT !.pc = "filter",
                                !.roles_list = SortedList(unique_roles),
                                !.cutoff_date = clock - user_run.data_freshness_days]
    /\ UNCHANGED <<collect_vars, client_vars, scheduler, users, market, pure_vars>>

\* _filter_roles_needing_update lines 151-166: the lookup for one role
\* answers; after the last one the filtered list is handed on
FilterRole ==
    /\ user_run.pc = "filter"
    /\ LET role == user_run.roles_list[user_run.idx]
           recent_job == RecentJobMatches(store, role, user_run.cutoff_date)
           u == AfterFilter([user_run EXCEPT
                    !.idx = @ + 1,
                    !.roles_to_fetch = IF recent_job # {} THEN @ ELSE Append(@, role)])
       IN  /\ user_run' = u
           /\ run' = [run EXCEPT !["scheduled"] = CollectionCalled(u, @)]
    /\ UNCHANGED <<store, next_id, clock, pending, upstream, supply>>
    /\ UNCHANGED <<client_vars, scheduler, users, market, pure_vars>>

UserStep == CollectJobsForAllUsers \/ FilterRole

(***************************************************************************)
(* market_service: analytics over the postings of a trailing window.  A    *)
(* salary is <<>> for None and <<n>> for n; a cache key is the sequence of *)
(* the pieces its f-string joins.                                          *)
(***************************************************************************)
\* longest window a request asks for, in days
MaxDays == 2
\* largest skills_limit and locations_limit a request asks for
MaxTrendLimit == 2
\* most advances of the clock while one request is served
MaxTicks == 1

\* ttl of the module's TTLCache
ttl == 0

SlugR == <<"R">>
SlugLowerR == <<"r">>
SlugQA == <<"q", "a">>

\* a stored posting, as far as the analytics read it
MarketPosting(id, scraped_at, technology_slugs, location, min_salary, max_salary, remote) ==
    [id |-> id, scraped_at |-> scraped_at,
     technology_slugs |-> technology_slugs, location |-> location,
     min_annual_salary_usd |-> min_salary,
     max_annual_salary_usd |-> max_salary, remote |-> remote]

\* postings scraped long ago, one day ago and today (the clock starts at 4)
MarketPostings ==
    { MarketPosting(1, 0, <<SlugR, SlugQA>>, "Pune", <<5>>, <<9>>, "True"),
      MarketPosting(2, 3, <<SlugLowerR, SlugR>>, "Oslo", <<>>, <<>>, "False"),
      MarketPosting(3, 4, <<>>, "", <<3>>, <<7>>, NONE) }

\* str(n) for a natural number
RECURSIVE Dec(_)
Dec(n) ==
    IF n < 10
    THEN << <<"0", "1", "2", "3", "4", "5", "6", "7", "8", "9">>[n + 1] >>
    ELSE Dec(n \div 10) \o Dec(n % 10)

\* the cache keys of the five operations
SkillsKey(days, limit) == <<"trending_skills_">> \o Dec(days) \o <<"_">> \o Dec(limit)
LocationsKey(days, limit) == <<"trending_locations_">> \o Dec(days) \o <<"_">> \o Dec(limit)
TechnologyKey(days, limit) == <<"technology_trends_">> \o Dec(days) \o <<"_">> \o Dec(limit)
SalaryKey(days, role) == <<"salary_trends_">> \o Dec(days) \o <<"_">> \o OrS(role, <<"a", "l", "l">>)
RemoteKey(days) == <<"remote_trends_">> \o Dec(days)

\* a TTLCache whose items live for ever
NeverExpires(entry, now) == TRUE

\* TTLCache: an item is alive while timer() < expires
Alive(entry, now) == now < entry.expires

\* key in cache
InCache(entries, key, now) == \E e \in entries : e.key = key /\ Alive(e, now)

\* cache[key]
CacheGet(entries, key) == (CHOOSE e \in entries : e.key = key).value

\* cache[key] = value: expired items are dropped, the item expires at now + ttl
CacheSet(entries, key, value, now) ==
    {e \in entries : e.key # key /\ Alive(e, now)}
        \cup {[key |-> key, value |-> value, expires |-> now + ttl]}

\* a window that takes in every posting
WholeStore(docs, cutoff) == docs

\* {"$match": {"scraped_at": {"$gte": cutoff}}}
InWindow(docs, cutoff) == {d \in docs : d.scraped_at >= cutoff}

\* {"$unwind": "$technology_slugs"}
Unwind(docs) ==
    UNION { { [id |-> d.id, i |-> i, technology_slugs |-> d.technology_slugs[i]]
                : i \in DOMAIN d.technology_slugs } : d \in docs }

\* {"$group": {"_id": {"$toLower": "$technology_slugs"}, "count": {"$sum": 1}}}
GroupBySlug(unwound) ==
    { [group |-> g,
       count |-> Cardinality({u \in unwound : Lower(u.technology_slugs) = g})]
        : g \in {Lower(u.technology_slugs) : u \in unwound} }

\* {"$group": {"_id": "$location", "count": {"$sum": 1}}}
GroupByLocation(docs) ==
    { [group |-> l, count |-> Cardinality({d \in docs : d.location = l})]
        : l \in {d.location : d \in docs} }

\* {"$group": {"_id": "$remote", "count": {"$sum": 1}}}
GroupByRemote(docs) ==
    { [group |-> r, count |-> Cardinality({d \in docs : d.remote = r})]
        : r \in {d.remote : d \in docs} }

RECURSIVE Total(_)
\* {"$sum": ...} over a set of [id, v]
Total(S) ==
    IF S = {} THEN 0
    ELSE LET x == CHOOSE x \in S : TRUE IN x.v + Total(S \ {x})

\* {"$avg": ...}: the quotient sum / n, kept as the pair
Avg(S) == [sum |-> Total(S), n |-> Cardinality(S)]

\* the $group of get_salary_trends
GroupSalaries(docs) ==
    { LET at == {d \in docs : d.location = l} IN
      [group |-> l,
       avg_min |-> Avg({[id |-> d.id, v |-> d.min_annual_salary_usd[1]] : d \in at}),
       avg_max |-> Avg({[id |-> d.id, v |-> d.max_annual_salary_usd[1]] : d \in at}),
       count |-> Cardinality(at)]
        : l \in {d.location : d \in docs} }

\* {"$sort": {"count": -1}}
ByCount(a, b) == a.count >= b.count

\* {"$sort": {"avg_max": -1}}
ByAvgMax(a, b) == a.avg_max.sum * b.avg_max.n >= b.avg_max.sum * a.avg_max.n

\* $sort by the field order, descending, then $limit: every list the store
\* may answer with, ties in any order
SortLimit(groups, order, limit) ==
    LET k == Min(limit, Cardinality(groups))
        Geq(a, b) == IF order = "avg_max" THEN ByAvgMax(a, b) ELSE ByCount(a, b)
    IN
    { s \in [1..k -> groups] :
        /\ \A i, j \in 1..k : i < j => s[i] # s[j] /\ Geq(s[i], s[j])
        /\ \A g \in groups \ {s[i] : i \in 1..k} : \A i \in 1..k : Geq(s[i], g) }

\* round((count / total_jobs) * 100, 2), in hundredths
Percentage(count, total_jobs) ==
    LET q == (count * 10000) \div total_jobs
        r == (count * 10000) % total_jobs
    IN  IF 2 * r > total_jobs \/ (2 * r = total_jobs /\ q % 2 = 1) THEN q + 1 ELSE q

\* the pipeline of get_trending_skills
SkillsPipeline(docs, cutoff_date, limit) ==
    SortLimit(GroupBySlug(Unwind(InWindow(docs, cutoff_date))), "count", limit)

\* get_trending_skills lines 72-82
TrendingSkills(results, total_jobs) ==
    [i \in DOMAIN results |->
        [skill |-> results[i].group, count |-> results[i].count,
         percentage |-> Percentage(results[i].count, total_jobs)]]

\* the pipeline of get_trending_locations
LocationsPipeline(docs, cutoff_date, limit) ==
    SortLimit(GroupByLocation({d \in InWindow(docs, cutoff_date) : Len(d.location) > 0}),
              "count", limit)

\* get_trending_locations lines 129-137
TrendingLocations(results) ==
    [i \in DOMAIN results |->
        [location |-> results[i].group, count |-> results[i].count]]

\* the pipeline of get_technology_trends
TechnologyPipeline(docs, cutoff, limit) ==
    SortLimit(GroupBySlug(Unwind({d \in InWindow(docs, cutoff) : d.technology_slugs # <<>>})),
              "count", limit)

\* get_technology_trends line 224
TechnologyTrends(results) ==
    [i \in DOMAIN results |->
        [technology |-> results[i].group, count |-> results[i].count]]

\* the pipeline of get_salary_trends, role = None
SalaryPipeline(docs, cutoff) ==
    SortLimit(GroupSalaries({d \in InWindow(docs, cutoff) :
                                /\ d.min_annual_salary_usd # <<>>
                                /\ d.max_annual_salary_usd # <<>>}),
              "avg_max", 20)

\* get_salary_trends lines 262-270
SalaryTrends(results) ==
    [i \in DOMAIN results |->
        [location |-> IF results[i].group # "" THEN results[i].group ELSE "Unknown",
         avg_min |-> results[i].avg_min, avg_max |-> results[i].avg_max,
         count |-> results[i].count]]

\* the pipeline of get_remote_job_trends
RemotePipeline(docs, cutoff) ==
    LET groups == GroupByRemote({d \in InWindow(docs, cutoff) : d.remote \in {"True", "False"}})
    IN  SortLimit(groups, "count", Cardinality(groups))

\* get_remote_job_trends line 294
RemoteTrends(results) ==
    [i \in DOMAIN results |->
        [remote |-> results[i].group = "True", count |-> results[i].count]]

Ops == {"trending_skills", "trending_locations", "technology_trends",
        "salary_trends", "remote_trends"}

\* a coroutine of the gather that has not run yet
NotRun == [pc |-> "start", total_jobs |-> 0, value |-> <<>>, failed |-> FALSE]

\* no request: the module as imported, its cache empty or holding what an
\* earlier request left
IdleMarket(cache) ==
    [pc |-> "idle", days |-> 0, skills_limit |-> 0, locations_limit |-> 0,
     began |-> 0, ticks |-> 0, task |-> [op \in Ops |-> NotRun],
     count_failed |-> FALSE, requests |-> 0,
     response |-> NONE, cache |-> cache]

NoMarketRequest == market = IdleMarket({})

\* a coroutine returns value
Returned(m, op, value) ==
    [m EXCEPT !.task[op] = [@ EXCEPT !.pc = "returned", !.value = value]]

\* a coroutine's store query raises: its except branch logs and returns []
Failed(m, op) ==
    [m EXCEPT !.task[op] = [@ EXCEPT !.pc = "returned", !.value = <<>>,
                                     !.failed = TRUE]]

\* a coroutine stores value under key and returns it
Cached(m, op, key, value) ==
    [Returned(m, op, value) EXCEPT !.cache = CacheSet(@, key, value, clock)]

\* get_market_summary lines 163-170: the five coroutines are handed to gather
GetMarketSummary ==
    /\ market.pc = "idle"
    /\ \E days \in 1..MaxDays, skills_limit, locations_limit \in 1..MaxTrendLimit :
          market' = [market EXCEPT !.pc = "gather", !.days = days,
                                   !.skills_limit = skills_limit,
                                   !.locations_limit = locations_limit,
                                   !.began = clock]
    /\ UNCHANGED <<collect_vars, client_vars, scheduler, user_vars, pure_vars>>

\* get_trending_skills lines 37-67: the cache is asked, then the postings of
\* the window are counted; a failing query ends in the except branch
SkillsCount ==
    /\ market.pc = "gather"
    /\ market.task["trending_skills"].pc = "start"
    /\ LET key == SkillsKey(market.days, market.skills_limit)
           cutoff_date == clock - market.days
           total_jobs == Cardinality(InWindow(store, cutoff_date))
       IN  IF InCache(market.cache, key, clock)
           THEN market' = Returned(market, "trending_skills", CacheGet(market.cache, key))
           ELSE \E ok \in BOOLEAN :
                  market' =
                     IF ~ok THEN Failed(market, "trending_skills")
                     ELSE IF total_jobs = 0
                     THEN Returned(market, "trending_skills", <<>>)
                     ELSE [market EXCEPT !.task["trending_skills"] =
                              [@ EXCEPT !.pc = "counted", !.total_jobs = total_jobs,
                                        !.value = [cutoff_date |-> cutoff_date]]]
    /\ UNCHANGED <<collect_vars, client_vars, scheduler, user_vars, pure_vars>>

\* get_trending_skills lines 70-92: the aggregation answers or fails
SkillsAggregate ==
    /\ market.pc = "gather"
    /\ market.task["trending_skills"].pc = "counted"
    /\ LET t == market.task["trending_skills"]
           key == SkillsKey(market.days, market.skills_limit)
       IN  \/ market' = Failed(market, "trending_skills")
           \/ \E results \in SkillsPipeline(store, t.value.cutoff_date, market.skills_limit) :
                 market' = Cached(market, "trending_skills", key,
                                  TrendingSkills(results, t.total_jobs))
    /\ UNCHANGED <<collect_vars, client_vars, scheduler, user_vars, pure_vars>>

\* get_trending_locations lines 106-148
GetTrendingLocations ==
    /\ market.pc = "gather"
    /\ market.task["trending_locations"].pc = "start"
    /\ LET key == LocationsKey(market.days, market.locations_limit) IN
       IF InCache(market.cache, key, clock)
       THEN market' = Returned(market, "trending_locations", CacheGet(market.cache, key))
       ELSE \/ market' = Failed(market, "trending_locations")
            \/ \E results \in LocationsPipeline(store, clock - market.days, market.locations_limit) :
                  market' = Cached(market, "trending_locations", key,
                                   TrendingLocations(results))
    /\ UNCHANGED <<collect_vars, client_vars, scheduler, user_vars, pure_vars>>

\* get_technology_trends lines 202-229, called with min(20, skills_limit + 5)
GetTechnologyTrends ==
    /\ market.pc = "gather"
    /\ market.task["technology_trends"].pc = "start"
    /\ LET limit == Min(20, market.skills_limit + 5)
           key == TechnologyKey(market.days, limit)
       IN  IF InCache(market.cache, key, clock)
           THEN market' = Returned(market, "technology_trends", CacheGet(market.cache, key))
           ELSE \/ market' = Failed(market, "technology_trends")
                \/ \E results \in TechnologyPipeline(store, clock - market.days, limit) :
                      market' = Cached(market, "technology_trends", key,
                                       TechnologyTrends(results))
    /\ UNCHANGED <<collect_vars, client_vars, scheduler, user_vars, pure_vars>>

\* get_salary_trends lines 233-277, role = None
GetSalaryTrends ==
    /\ market.pc = "gather"
    /\ market.task["salary_trends"].pc = "start"
    /\ LET key == SalaryKey(market.days, NONE_S) IN
       IF InCache(market.cache, key, clock)
       THEN market' = Returned(market, "salary_trends", CacheGet(market.cache, key))
       ELSE \/ market' = Failed(market, "salary_trends")
            \/ \E results \in SalaryPipeline(store, clock - market.days) :
                  market' = Cached(market, "salary_trends", key, SalaryTrends(results))
    /\ UNCHANGED <<collect_vars, client_vars, scheduler, user_vars, pure_vars>>

\* get_remote_job_trends lines 281-301
GetRemoteJobTrends ==
    /\ market.pc = "gather"
    /\ market.task["remote_trends"].pc = "start"
    /\ LET key == RemoteKey(market.days) IN
       IF InCache(market.cache, key, clock)
       THEN market' = Returned(market, "remote_trends", CacheGet(market.cache, key))
       ELSE \/ market' = Failed(market, "remote_trends")
            \/ \E results \in RemotePipeline(store, clock - market.days) :
                  market' = Cached(market, "remote_trends", key, RemoteTrends(results))
    /\ UNCHANGED <<collect_vars, client_vars, scheduler, user_vars, pure_vars>>

\* TrendingResponse
TrendingResponse(top_skills, top_locations, technology_trends, salary_trends, remote_distribution, total_jobs_analyzed, generated_at, window_days) ==
    [top_skills |-> top_skills, top_locations |-> top_locations,
     technology_trends |-> technology_trends, salary_trends |-> salary_trends,
     remote_distribution |-> remote_distribution,
     total_jobs_analyzed |-> total_jobs_analyzed,
     generated_at |-> generated_at, window_days |-> window_days]

\* get_market_summary lines 172-198: after the gather the window is counted
\* and the response built; a failing count ends in the except branch
Summarize ==
    /\ market.pc = "gather"
    /\ \A op \in Ops : market.task[op].pc = "returned"
    /\ \E ok \in BOOLEAN :
          LET total_jobs == Cardinality(InWindow(store, clock - market.days)) IN
          market' = [market EXCEPT
             !.pc = "done",
             !.count_failed = ~ok,
             !.response =
                IF ok
                THEN TrendingResponse(market.task["trending_skills"].value,
                                      market.task["trending_locations"].value,
                                      market.task["technology_trends"].value,
                                      market.task["salary_trends"].value,
                                      market.task["remote_trends"].value,
                                      total_jobs, clock, market.days)
                ELSE TrendingResponse(<<>>, <<>>, <<>>, <<>>, <<>>, 0, clock, market.days)]
    /\ UNCHANGED <<collect_vars, client_vars, scheduler, user_vars, pure_vars>>

\* time passes while the request waits for the store
MarketTick ==
    /\ market.pc = "gather"
    /\ market.ticks < MaxTicks
    /\ clock' = clock + 1
    /\ market' = [market EXCEPT !.ticks = @ + 1]
    /\ UNCHANGED <<store, next_id, run, pending, upstream, supply>>
    /\ UNCHANGED <<client_vars, scheduler, user_vars, pure_vars>>

\* most requests served one after the other
MaxRequests == 2

\* the response is sent; the module and its cache stay for the next request
NextRequest ==
    /\ market.pc = "done"
    /\ market.requests + 1 < MaxRequests
    /\ market' = [IdleMarket(market.cache) EXCEPT !.requests = market.requests + 1]
    /\ UNCHANGED <<collect_vars, client_vars, scheduler, user_vars, pure_vars>>

\* a posting scraped now that a collection run may store at any time
Ingestable ==
    {d \in MarketPostings \cup {MarketPosting(4, 4, <<SlugQA>>, "Oslo", <<4>>, <<8>>, "True")} :
        d.scraped_at = clock}

\* JobPosting.upsert_job inserts a posting while the analytics run or rest
Ingest ==
    /\ \E d \in Ingestable \ store : store' = store \cup {d}
    /\ UNCHANGED <<next_id, clock, run, pending, upstream, supply>>
    /\ UNCHANGED <<client_vars, scheduler, user_vars, market, pure_vars>>

MarketStep ==
    \/ GetMarketSummary
    \/ SkillsCount
    \/ SkillsAggregate
    \/ GetTrendingLocations
    \/ GetTechnologyTrends
    \/ GetSalaryTrends
    \/ GetRemoteJobTrends
    \/ Summarize
    \/ MarketTick

(***************************************************************************)
(* gap_service: the skills a role requires and a user's coverage of them.  *)
(* A percentage is kept in hundredths, a quotient as numerator and         *)
(* denominator.                                                            *)
(***************************************************************************)
\* longest list of user skills
MaxSkills == 3

\* a skill name compared as it is written
RawSkillName(req_skill) ==
    Strip(OrS(req_skill.technology_slug, req_skill.skill))

\* compute_user_coverage line 185
SkillName(req_skill) ==
    Strip(Lower(OrS(req_skill.technology_slug, req_skill.skill)))

\* compute_user_coverage line 178: [s.lower().strip() for s in user_skills if s and s.strip()]
NormalizedUserSkills(user_skills) ==
    LET Kept(s) == TruthyS(s) /\ TruthyS(Strip(s))
        kept == SelectSeq(user_skills, Kept)
    IN  [i \in DOMAIN kept |-> Strip(Lower(kept[i]))]

\* compute_user_coverage lines 188-191
UserHasSkill(user_skills, skill_name) ==
    \E i \in DOMAIN user_skills : Lower(user_skills[i]) = skill_name

RECURSIVE CoverageLoop(_, _, _)
\* compute_user_coverage lines 183-202: the for loop, from the locals acc on
CoverageLoop(user_skills, required_skills, acc) ==
    IF required_skills = <<>> THEN acc
    ELSE LET req_skill == Head(required_skills)
             skill_name == SkillName(req_skill)
             user_has_skill == UserHasSkill(user_skills, skill_name)
         IN  CoverageLoop(user_skills, Tail(required_skills),
                [skill_gap_items |->
                    Append(acc.skill_gap_items,
                           [skill |-> skill_name,
                            required_percentage |-> req_skill.percentage,
                            user_has |-> user_has_skill]),
                 missing_skills |->
                    IF user_has_skill THEN acc.missing_skills
                    ELSE Append(acc.missing_skills, skill_name),
                 skills_have |->
                    IF user_has_skill THEN acc.skills_have + 1 ELSE acc.skills_have])

\* compute_user_coverage
ComputeUserCoverage(user_skills, required_skills) ==
    IF required_skills = <<>>
    THEN [skill_gap_items |-> <<>>, missing_skills |-> <<>>,
          coverage |-> [num |-> 0, den |-> 1], skills_have |-> 0, total_skills |-> 0]
    ELSE LET acc == CoverageLoop(NormalizedUserSkills(user_skills), required_skills,
                                 [skill_gap_items |-> <<>>, missing_skills |-> <<>>,
                                  skills_have |-> 0])
             total_skills == Len(required_skills)
         IN  [skill_gap_items |-> acc.skill_gap_items,
              missing_skills |-> acc.missing_skills,
              coverage |-> [num |-> acc.skills_have * 100, den |-> total_skills],
              skills_have |-> acc.skills_have, total_skills |-> total_skills]

\* an element of the list get_role_required_skills returns (lines 151-157)
RequiredSkill(skill, technology_slug, percentage) ==
    [skill |-> skill, technology_slug |-> technology_slug, percentage |-> percentage]

\* a skill with its slug, as get_role_required_skills builds it
Required(skill) == RequiredSkill(skill, skill, 5000)

\* the skills a user may have stored: in either letter case, padded, blank, None
UserSkillTexts == {<<"R">>, <<" ", "r">>, <<"Q", "A">>, <<" ">>, NONE_S, <<"n">>}

RECURSIVE ListsUpTo(_, _)
\* the lists of at most n elements of S
ListsUpTo(S, n) ==
    IF n = 0 THEN {<<>>}
    ELSE LET shorter == ListsUpTo(S, n - 1)
         IN  shorter \cup {Append(l, x) : l \in shorter, x \in S}

\* the required lists: empty, of one to four skills, with a slug written in
\* two letter cases, and with an element that has no slug
RequiredLists ==
    { <<>>,
      <<Required(<<"r">>)>>,
      <<Required(<<"R">>), Required(<<"q", "a">>)>>,
      <<Required(<<"r">>), Required(<<"R">>)>>,
      <<RequiredSkill(<<"Q", "A", " ">>, <<>>, 2500), Required(<<"d">>)>>,
      <<Required(<<"r">>), Required(<<"q", "a">>), Required(<<"n">>), Required(<<"d">>)>> }

\* no coverage computed yet
IdleGap(user_skills, required_skills) ==
    [pc |-> "idle", user_skills |-> user_skills,
     required_skills |-> required_skills,
     result |-> ComputeUserCoverage(<<>>, <<>>)]

NoGapCall == gap = IdleGap(<<>>, <<>>)

\* analyze_skill_gap line 249: the coverage of the user's skills is computed
ComputeCoverage ==
    /\ gap.pc = "idle"
    /\ gap' = [gap EXCEPT !.pc = "computed",
                          !.result = ComputeUserCoverage(gap.user_skills, gap.required_skills)]
    /\ UNCHANGED <<collect_vars, client_vars, scheduler, user_vars, market, role_skills, calc, cleanup>>

\* the thresholds a caller passes, in hundredths (0.25 is 25)
Thresholds == {20, 25, 80}

\* str(threshold), for a threshold of at most 1
FloatStr(threshold) ==
    IF threshold = 100 THEN <<"1", ".", "0">>
    ELSE <<"0", ".">> \o (IF threshold % 10 = 0 THEN Dec(threshold \div 10)
                          ELSE IF threshold < 10 THEN <<"0">> \o Dec(threshold)
                          ELSE Dec(threshold))

\* a comparison that leaves out the tag that is exactly at the threshold
AboveThreshold(count, total_jobs, threshold) ==
    count * 100 > threshold * total_jobs

\* get_role_required_skills lines 145-148: (count / total_jobs) * 100 >= threshold * 100
MeetsThreshold(count, total_jobs, threshold) ==
    count * 100 >= threshold * total_jobs

\* a stored posting, as far as get_role_required_skills reads it
RolePosting(id, search_keywords, title, scraped_at, technology_slugs) ==
    [id |-> id, search_keywords |-> search_keywords, title |-> title,
     scraped_at |-> scraped_at, technology_slugs |-> technology_slugs]

\* five postings collected for QA (one tag in four of them, another in one),
\* a legacy posting that names QA in its title only, and an old one
RolePostings ==
    { RolePosting(1, <<"q", "a">>, TitleDev, 4, <<SlugR>>),
      RolePosting(2, RoleQA, TitleDev, 4, <<SlugR>>),
      RolePosting(3, RoleQA, TitleDev, 3, <<SlugR>>),
      RolePosting(4, RoleQA, TitleDev, 4, <<SlugR, SlugQA>>),
      RolePosting(5, RoleQA, TitleDev, 4, <<>>),
      RolePosting(6, RoleReact, <<"q", "a", " ">> \o TitleDev, 4, <<SlugQA>>),
      RolePosting(7, RoleQA, TitleDev, 0, <<SlugQA>>) }

\* lines 60-66: search_keywords matches ^role$ without regard to letter case
MatchesSearchKeywords(docs, normalized_role, cutoff_date) ==
    {d \in InWindow(docs, cutoff_date) : Lower(d.search_keywords) = Lower(normalized_role)}

\* lines 73-77: the title holds the role, without regard to letter case
MatchesTitle(docs, normalized_role, cutoff_date) ==
    {d \in InWindow(docs, cutoff_date) : Contains(Lower(d.title), Lower(normalized_role))}

\* lines 69-78 and 104-110: the postings of the role, by search_keywords, or
\* by title when no search_keywords matches
RoleFilter(docs, role, cutoff_date) ==
    LET by_keywords == MatchesSearchKeywords(docs, Strip(role), cutoff_date) IN
    IF by_keywords # {} THEN by_keywords ELSE MatchesTitle(docs, Strip(role), cutoff_date)

\* {"$group": {"_id": "$technology_slugs", "count": {"$sum": 1}}}
GroupByRawSlug(unwound) ==
    { [group |-> g,
       count |-> Cardinality({u \in unwound : u.technology_slugs = g})]
        : g \in {u.technology_slugs : u \in unwound} }

\* the pipeline of get_role_required_skills, lines 112-124
RoleSkillsPipeline(docs, role, cutoff_date) ==
    LET groups == GroupByRawSlug(Unwind(RoleFilter(docs, role, cutoff_date)))
    IN  SortLimit(groups, "count", Cardinality(groups))

\* lines 138-157: the percentages, and the tags that reach the threshold
RequiredSkills(results, total_jobs, threshold) ==
    LET Kept(result) == total_jobs # 0 /\ MeetsThreshold(result.count, total_jobs, threshold)
        kept == SelectSeq(results, Kept)
    IN  [i \in DOMAIN kept |->
            [skill |-> kept[i].group, technology_slug |-> kept[i].group,
             count |-> kept[i].count,
             percentage |-> Percentage(kept[i].count, total_jobs),
             total_jobs |-> total_jobs]]

\* the cache key of line 48
RoleSkillsKey(role, days, threshold) ==
    <<"role_skills_">> \o Lower(role) \o <<"_">> \o Dec(days) \o <<"_">> \o FloatStr(threshold)

\* no call yet: the module as imported, its cache cleared (line 31)
IdleRoleSkills(role, days, threshold) ==
    [pc |-> "idle", role |-> role, days |-> days, threshold |-> threshold,
     cutoff_date |-> 0, total_jobs |-> 0, failed |-> FALSE, result |-> <<>>,
     cache |-> {}]

\* lines 48-78: the cache is asked, then the role's postings are counted
CountRolePostings ==
    /\ role_skills.pc = "idle"
    /\ LET r == role_skills
           key == RoleSkillsKey(r.role, r.days, r.threshold)
           cutoff_date == clock - r.days
       IN  IF \E e \in r.cache : e.key = key
           THEN role_skills' = [r EXCEPT !.pc = "returned",
                                         !.result = (CHOOSE e \in r.cache : e.key = key).value]
           ELSE \E ok \in BOOLEAN :
                  role_skills' =
                     IF ~ok THEN [r EXCEPT !.pc = "returned", !.failed = TRUE]
                     ELSE [r EXCEPT !.pc = "counted", !.cutoff_date = cutoff_date,
                                    !.total_jobs = Cardinality(RoleFilter(store, r.role, cutoff_date))]
    /\ UNCHANGED <<collect_vars, client_vars, scheduler, user_vars, market, gap, calc, cleanup>>

\* lines 81-101: the postings that carry any tag are counted; none means []
CountTagged ==
    /\ role_skills.pc = "counted"
    /\ \E ok \in BOOLEAN :
          role_skills' =
             IF ~ok THEN [role_skills EXCEPT !.pc = "returned", !.failed = TRUE]
             ELSE IF {d \in store : d.technology_slugs # <<>>} = {}
             THEN [role_skills EXCEPT !.pc = "returned"]
             ELSE [role_skills EXCEPT !.pc = "aggregate"]
    /\ UNCHANGED <<collect_vars, client_vars, scheduler, user_vars, market, gap, calc, cleanup>>

\* lines 127-166: the aggregation answers or fails; the kept tags are cached
\* and returned
AggregateRoleSkills ==
    /\ role_skills.pc = "aggregate"
    /\ LET r == role_skills IN
       \/ role_skills' = [r EXCEPT !.pc = "returned", !.failed = TRUE]
       \/ \E results \in RoleSkillsPipeline(store, r.role, r.cutoff_date) :
             role_skills' =
                IF results = <<>> THEN [r EXCEPT !.pc = "returned"]
                ELSE LET required_skills == RequiredSkills(results, r.total_jobs, r.threshold)
                     IN  [r EXCEPT !.pc = "returned", !.result = required_skills,
                                   !.cache = @ \cup {[key |-> RoleSkillsKey(r.role, r.days, r.threshold),
                                                      value |-> required_skills]}]
    /\ UNCHANGED <<collect_vars, client_vars, scheduler, user_vars, market, gap, calc, cleanup>>

RoleSkillsStep == CountRolePostings \/ CountTagged \/ AggregateRoleSkills

(***************************************************************************)
(* skill_extractor.map_technology_slugs, the SkillNormalizer, over the     *)
(* entries of its two tables that the modelled slugs reach.                *)
(***************************************************************************)
\* longest list of raw slugs
MaxSlugs == 2

\* the raw slugs of a posting: None, empty, blank, mapped and unmapped ones,
\* in upper case, padded, with separators inside and at the ends
RawSlugs ==
    { NONE_S, <<>>, <<" ">>,
      <<"g", "o">>,
      <<"g", "o", "l", "a", "n", "g">>,
      <<"N", "o", "d", "e", "-", "j", "s">>,
      <<" ", "n", "o", "d", "e", "j", "s", " ">>,
      <<"j", "s">>,
      <<"c", "i", "-", "c", "d">>,
      <<"a", "_", "d">>,
      <<"-">>,
      <<"-", "g", "o">>,
      <<"r">> }

\* no function evaluated yet
IdleCalc(input) == [pc |-> "idle", input |-> input, once |-> <<>>, twice |-> <<>>]

\* the orchestrator normalizes the raw slugs of a posting
Normalize ==
    /\ calc.pc = "idle"
    /\ calc' = [calc EXCEPT !.pc = "once", !.once = MapTechnologySlugs(calc.input)]
    /\ UNCHANGED <<collect_vars, client_vars, scheduler, user_vars, market, gap, role_skills, cleanup>>

\* the normalized list is normalized again
NormalizeAgain ==
    /\ calc.pc = "once"
    /\ calc' = [calc EXCEPT !.pc = "twice", !.twice = MapTechnologySlugs(calc.once)]
    /\ UNCHANGED <<collect_vars, client_vars, scheduler, user_vars, market, gap, role_skills, cleanup>>

(***************************************************************************)
(* JobCollectionService._generate_role_variations.                         *)
(***************************************************************************)
\* _generate_role_variations lines 36-164: the names the if chain adds
RoleVariations(role_lower) ==
    IF (Contains(role_lower, <<"a", "w", "s">>) /\ Contains(role_lower, <<"a", "r", "c", "h", "i", "t", "e", "c", "t">>))
    THEN << <<"A", "W", "S", " ", "S", "o", "l", "u", "t", "i", "o", "n", "s", " ", "A", "r", "c", "h", "i", "t", "e", "c", "t">>,
            <<"A", "W", "S", " ", "A", "r", "c", "h", "i", "t", "e", "c", "t">>,
            <<"A", "W", "S", " ", "C", "l", "o", "u", "d", " ", "A", "r", "c", "h", "i", "t", "e", "c", "t">>,
            <<"C", "l", "o", "u", "d", " ", "S", "o", "l", "u", "t", "i", "o", "n", "s", " ", "A", "r", "c", "h", "i", "t", "e", "c", "t">>,
            <<"C", "l", "o", "u", "d", " ", "A", "r", "c", "h", "i", "t", "e", "c", "t">>,
            <<"S", "o", "l", "u", "t", "i", "o", "n", "s", " ", "A", "r", "c", "h", "i", "t", "e", "c", "t">>,
            <<"A", "W", "S", " ", "C", "e", "r", "t", "i", "f", "i", "e", "d", " ", "S", "o", "l", "u", "t", "i", "o", "n", "s", " ", "A", "r", "c", "h", "i", "t", "e", "c", "t">> >>
    ELSE IF Contains(role_lower, <<"s", "o", "l", "u", "t", "i", "o", "n", "s", " ", "a", "r", "c", "h", "i", "t", "e", "c", "t">>)
    THEN << <<"S", "o", "l", "u", "t", "i", "o", "n", "s", " ", "A", "r", "c", "h", "i", "t", "e", "c", "t">>,
            <<"C", "l", "o", "u", "d", " ", "S", "o", "l", "u", "t", "i", "o", "n", "s", " ", "A", "r", "c", "h", "i", "t", "e", "c", "t">>,
            <<"C", "l", "o", "u", "d", " ", "A", "r", "c", "h", "i", "t", "e", "c", "t">>,
            <<"T", "e", "c", "h", "n", "i", "c", "a", "l", " ", "A", "r", "c", "h", "i", "t", "e", "c", "t">> >>
    ELSE IF Contains(role_lower, <<"b", "a", "c", "k", "e", "n", "d">>)
    THEN << <<"B", "a", "c", "k", "e", "n", "d">>,
            <<"B", "a", "c", "k", "-", "e", "n", "d", " ", "D", "e", "v", "e", "l", "o", "p", "e", "r">>,
            <<"B", "a", "c", "k", " ", "e", "n", "d", " ", "D", "e", "v", "e", "l", "o", "p", "e", "r">>,
            <<"B", "a", "c", "k", "e", "n", "d", " ", "E", "n", "g", "i", "n", "e", "e", "r">>,
            <<"S", "e", "r", "v", "e", "r", "-", "s", "i", "d", "e", " ", "D", "e", "v", "e", "l", "o", "p", "e", "r">> >>
    ELSE IF (Contains(role_lower, <<"f", "r", "o", "n", "t", "e", "n", "d">>) \/ Contains(role_lower, <<"f", "r", "o", "n", "t", "-", "e", "n", "d">>))
    THEN << <<"F", "r", "o", "n", "t", "e", "n", "d">>,
            <<"F", "r", "o", "n", "t", "-", "e", "n", "d", " ", "D", "e", "v", "e", "l", "o", "p", "e", "r">>,
            <<"F", "r", "o", "n", "t", " ", "e", "n", "d", " ", "D", "e", "v", "e", "l", "o", "p", "e", "r">>,
            <<"F", "r", "o", "n", "t", "e", "n", "d", " ", "E", "n", "g", "i", "n", "e", "e", "r">>,
            <<"U", "I", " ", "D", "e", "v", "e", "l", "o", "p", "e", "r">> >>
    ELSE IF (Contains(role_lower, <<"f", "u", "l", "l", " ", "s", "t", "a", "c", "k">>) \/ Contains(role_lower, <<"f", "u", "l", "l", "s", "t", "a", "c", "k">>) \/ Contains(role_lower, <<"f", "u", "l", "l", "-", "s", "t", "a", "c", "k">>))
    THEN << <<"F", "u", "l", "l", " ", "S", "t", "a", "c", "k">>,
            <<"F", "u", "l", "l", "s", "t", "a", "c", "k", " ", "D", "e", "v", "e", "l", "o", "p", "e", "r">>,
            <<"F", "u", "l", "l", "-", "s", "t", "a", "c", "k", " ", "D", "e", "v", "e", "l", "o", "p", "e", "r">>,
            <<"F", "u", "l", "l", " ", "S", "t", "a", "c", "k", " ", "E", "n", "g", "i", "n", "e", "e", "r">>,
            <<"F", "u", "l", "l", "s", "t", "a", "c", "k", " ", "E", "n", "g", "i", "n", "e", "e", "r">> >>
    ELSE IF Contains(role_lower, <<"s", "o", "f", "t", "w", "a", "r", "e", " ", "e", "n", "g", "i", "n", "e", "e", "r">>)
    THEN << <<"S", "o", "f", "t", "w", "a", "r", "e", " ", "D", "e", "v", "e", "l", "o", "p", "e", "r">>,
            <<"S", "D", "E">>,
            <<"S", "o", "f", "t", "w", "a", "r", "e", " ", "E", "n", "g", "i", "n", "e", "e", "r">>,
            <<"E", "n", "g", "i", "n", "e", "e", "r">>,
            <<"D", "e", "v", "e", "l", "o", "p", "e", "r">> >>
    ELSE IF Contains(role_lower, <<"d", "a", "t", "a", " ", "e", "n", "g", "i", "n", "e", "e", "r">>)
    THEN << <<"D", "a", "t", "a", " ", "E", "n", "g", "i", "n", "e", "e", "r">>,
            <<"B", "i", "g", " ", "D", "a", "t", "a", " ", "E", "n", "g", "i", "n", "e", "e", "r">>,
            <<"E", "T", "L", " ", "D", "e", "v", "e", "l", "o", "p", "e", "r">>,
            <<"D", "a", "t", "a", " ", "P", "i", "p", "e", "l", "i", "n", "e", " ", "E", "n", "g", "i", "n", "e", "e", "r">> >>
    ELSE IF Contains(role_lower, <<"d", "e", "v", "o", "p", "s">>)
    THEN << <<"D", "e", "v", "O", "p", "s">>,
            <<"D", "e", "v", "O", "p", "s", " ", "E", "n", "g", "i", "n", "e", "e", "r">>,
            <<"S", "R", "E">>,
            <<"S", "i", "t", "e", " ", "R", "e", "l", "i", "a", "b", "i", "l", "i", "t", "y", " ", "E", "n", "g", "i", "n", "e", "e", "r">>,
            <<"P", "l", "a", "t", "f", "o", "r", "m", " ", "E", "n", "g", "i", "n", "e", "e", "r">> >>
    ELSE IF Contains(role_lower, <<"m", "o", "b", "i", "l", "e">>)
    THEN << <<"M", "o", "b", "i", "l", "e", " ", "D", "e", "v", "e", "l", "o", "p", "e", "r">>,
            <<"M", "o", "b", "i", "l", "e", " ", "E", "n", "g", "i", "n", "e", "e", "r">>,
            <<"i", "O", "S", " ", "D", "e", "v", "e", "l", "o", "p", "e", "r">>,
            <<"A", "n", "d", "r", "o", "i", "d", " ", "D", "e", "v", "e", "l", "o", "p", "e", "r">>,
            <<"M", "o", "b", "i", "l", "e", " ", "A", "p", "p", " ", "D", "e", "v", "e", "l", "o", "p", "e", "r">> >>
    ELSE IF (Contains(role_lower, <<"a", "i", " ", "e", "n", "g", "i", "n", "e", "e", "r">>) \/ Contains(role_lower, <<"m", "l", " ", "e", "n", "g", "i", "n", "e", "e", "r">>) \/ Contains(role_lower, <<"m", "a", "c", "h", "i", "n", "e", " ", "l", "e", "a", "r", "n", "i", "n", "g">>))
    THEN << <<"A", "I", " ", "E", "n", "g", "i", "n", "e", "e", "r">>,
            <<"M", "L", " ", "E", "n", "g", "i", "n", "e", "e", "r">>,
            <<"M", "a", "c", "h", "i", "n", "e", " ", "L", "e", "a", "r", "n", "i", "n", "g", " ", "E", "n", "g", "i", "n", "e", "e", "r">>,
            <<"A", "I", "/", "M", "L", " ", "E", "n", "g", "i", "n", "e", "e", "r">>,
            <<"A", "r", "t", "i", "f", "i", "c", "i", "a", "l", " ", "I", "n", "t", "e", "l", "l", "i", "g", "e", "n", "c", "e", " ", "E", "n", "g", "i", "n", "e", "e", "r">> >>
    ELSE IF Contains(role_lower, <<"d", "a", "t", "a", " ", "s", "c", "i", "e", "n", "t", "i", "s", "t">>)
    THEN << <<"D", "a", "t", "a", " ", "S", "c", "i", "e", "n", "t", "i", "s", "t">>,
            <<"M", "L", " ", "S", "c", "i", "e", "n", "t", "i", "s", "t">>,
            <<"R", "e", "s", "e", "a", "r", "c", "h", " ", "S", "c", "i", "e", "n", "t", "i", "s", "t">> >>
    ELSE IF Contains(role_lower, <<"c", "l", "o", "u", "d", " ", "e", "n", "g", "i", "n", "e", "e", "r">>)
    THEN << <<"C", "l", "o", "u", "d", " ", "E", "n", "g", "i", "n", "e", "e", "r">>,
            <<"C", "l", "o", "u", "d", " ", "A", "r", "c", "h", "i", "t", "e", "c", "t">>,
            <<"C", "l", "o", "u", "d", " ", "D", "e", "v", "e", "l", "o", "p", "e", "r">> >>
    ELSE IF (Contains(role_lower, <<"q", "a">>) \/ Contains(role_lower, <<"t", "e", "s", "t">>) \/ Contains(role_lower, <<"q", "u", "a", "l", "i", "t", "y">>))
    THEN << <<"Q", "A", " ", "E", "n", "g", "i", "n", "e", "e", "r">>,
            <<"T", "e", "s", "t", " ", "E", "n", "g", "i", "n", "e", "e", "r">>,
            <<"Q", "A", " ", "A", "u", "t", "o", "m", "a", "t", "i", "o", "n", " ", "E", "n", "g", "i", "n", "e", "e", "r">>,
            <<"S", "D", "E", "T">>,
            <<"Q", "u", "a", "l", "i", "t", "y", " ", "E", "n", "g", "i", "n", "e", "e", "r">> >>
    ELSE IF Contains(role_lower, <<"p", "r", "o", "d", "u", "c", "t", " ", "m", "a", "n", "a", "g", "e", "r">>)
    THEN << <<"P", "r", "o", "d", "u", "c", "t", " ", "M", "a", "n", "a", "g", "e", "r">>,
            <<"P", "M">>,
            <<"P", "r", "o", "d", "u", "c", "t", " ", "O", "w", "n", "e", "r">>,
            <<"T", "e", "c", "h", "n", "i", "c", "a", "l", " ", "P", "r", "o", "d", "u", "c", "t", " ", "M", "a", "n", "a", "g", "e", "r">> >>
    ELSE IF Contains(role_lower, <<"s", "e", "c", "u", "r", "i", "t", "y">>)
    THEN << <<"S", "e", "c", "u", "r", "i", "t", "y", " ", "E", "n", "g", "i", "n", "e", "e", "r">>,
            <<"C", "y", "b", "e", "r", "s", "e", "c", "u", "r", "i", "t", "y", " ", "E", "n", "g", "i", "n", "e", "e", "r">>,
            <<"I", "n", "f", "o", "S", "e", "c", " ", "E", "n", "g", "i", "n", "e", "e", "r">>,
            <<"S", "e", "c", "u", "r", "i", "t", "y", " ", "A", "n", "a", "l", "y", "s", "t">> >>
    ELSE <<>>

\* a list returned as it was built
AllVariations(variations) == variations

RECURSIVE UniqueLoop(_, _, _)
\* lines 176-182: the for loop over variations, from seen and unique_variations on
UniqueLoop(variations, seen, unique_variations) ==
    IF variations = <<>> THEN unique_variations
    ELSE LET var == Head(variations)
             var_normalized == Strip(Lower(var))
         IN  IF var_normalized # <<>> /\ var_normalized \notin seen
             THEN UniqueLoop(Tail(variations), seen \cup {var_normalized},
                             Append(unique_variations, var))
             ELSE UniqueLoop(Tail(variations), seen, unique_variations)

\* lines 175-182: duplicates are removed, the first of each kept
UniqueVariations(variations) == UniqueLoop(variations, {}, <<>>)

\* _generate_role_variations
GenerateRoleVariations(role) ==
    UniqueVariations(<<role>> \o RoleVariations(Lower(role)))

\* the roles a caller passes: one for each branch of the if chain and one for
\* none, each as written, in lower case and padded; the empty and a blank role
VariationRoles ==
    { <<"B", "a", "c", "k", "e", "n", "d", " ", "D", "e", "v", "e", "l", "o", "p", "e", "r">>,
      <<"b", "a", "c", "k", "e", "n", "d", " ", "d", "e", "v", "e", "l", "o", "p", "e", "r">>,
      <<" ", "B", "a", "c", "k", "e", "n", "d", " ", "D", "e", "v", "e", "l", "o", "p", "e", "r", " ">>,
      <<"S", "o", "f", "t", "w", "a", "r", "e", " ", "E", "n", "g", "i", "n", "e", "e", "r">>,
      <<"s", "o", "f", "t", "w", "a", "r", "e", " ", "e", "n", "g", "i", "n", "e", "e", "r">>,
      <<" ", "S", "o", "f", "t", "w", "a", "r", "e", " ", "E", "n", "g", "i", "n", "e", "e", "r", " ">>,
      <<"A", "W", "S", " ", "A", "r", "c", "h", "i", "t", "e", "c", "t">>,
      <<"a", "w", "s", " ", "a", "r", "c", "h", "i", "t", "e", "c", "t">>,
      <<" ", "A", "W", "S", " ", "A", "r", "c", "h", "i", "t", "e", "c", "t", " ">>,
      <<"S", "o", "l", "u", "t", "i", "o", "n", "s", " ", "A", "r", "c", "h", "i", "t", "e", "c", "t">>,
      <<"s", "o", "l", "u", "t", "i", "o", "n", "s", " ", "a", "r", "c", "h", "i", "t", "e", "c", "t">>,
      <<" ", "S", "o", "l", "u", "t", "i", "o", "n", "s", " ", "A", "r", "c", "h", "i", "t", "e", "c", "t", " ">>,
      <<"F", "r", "o", "n", "t", "e", "n", "d">>,
      <<"f", "r", "o", "n", "t", "e", "n", "d">>,
      <<" ", "F", "r", "o", "n", "t", "e", "n", "d", " ">>,
      <<"F", "r", "o", "n", "t", "-", "e", "n", "d", " ", "D", "e", "v", "e", "l", "o", "p", "e", "r">>,
      <<"f", "r", "o", "n", "t", "-", "e", "n", "d", " ", "d", "e", "v", "e", "l", "o", "p", "e", "r">>,
      <<" ", "F", "r", "o", "n", "t", "-", "e", "n", "d", " ", "D", "e", "v", "e", "l", "o", "p", "e", "r", " ">>,
      <<"F", "u", "l", "l", " ", "S", "t", "a", "c", "k">>,
      <<"f", "u", "l", "l", " ", "s", "t", "a", "c", "k">>,
      <<" ", "F", "u", "l", "l", " ", "S", "t", "a", "c", "k", " ">>,
      <<"D", "a", "t", "a", " ", "E", "n", "g", "i", "n", "e", "e", "r">>,
      <<"d", "a", "t", "a", " ", "e", "n", "g", "i", "n", "e", "e", "r">>,
      <<" ", "D", "a", "t", "a", " ", "E", "n", "g", "i", "n", "e", "e", "r", " ">>,
      <<"D", "e", "v", "O", "p", "s">>,
      <<"d", "e", "v", "o", "p", "s">>,
      <<" ", "D", "e", "v", "O", "p", "s", " ">>,
      <<"M", "o", "b", "i", "l", "e", " ", "D", "e", "v", "e", "l", "o", "p", "e", "r">>,
      <<"m", "o", "b", "i", "l", "e", " ", "d", "e", "v", "e", "l", "o", "p", "e", "r">>,
      <<" ", "M", "o", "b", "i", "l", "e", " ", "D", "e", "v", "e", "l", "o", "p", "e", "r", " ">>,
      <<"M", "L", " ", "E", "n", "g", "i", "n", "e", "e", "r">>,
      <<"m", "l", " ", "e", "n", "g", "i", "n", "e", "e", "r">>,
      <<" ", "M", "L", " ", "E", "n", "g", "i", "n", "e", "e", "r", " ">>,
      <<"D", "a", "t", "a", " ", "S", "c", "i", "e", "n", "t", "i", "s", "t">>,
      <<"d", "a", "t", "a", " ", "s", "c", "i", "e", "n", "t", "i", "s", "t">>,
      <<" ", "D", "a", "t", "a", " ", "S", "c", "i", "e", "n", "t", "i", "s", "t", " ">>,
      <<"C", "l", "o", "u", "d", " ", "E", "n", "g", "i", "n", "e", "e", "r">>,
      <<"c", "l", "o", "u", "d", " ", "e", "n", "g", "i", "n", "e", "e", "r">>,
      <<" ", "C", "l", "o", "u", "d", " ", "E", "n", "g", "i", "n", "e", "e", "r", " ">>,
      <<"Q", "A">>,
      <<"q", "a">>,
      <<" ", "Q", "A", " ">>,
      <<"P", "r", "o", "d", "u", "c", "t", " ", "M", "a", "n", "a", "g", "e", "r">>,
      <<"p", "r", "o", "d", "u", "c", "t", " ", "m", "a", "n", "a", "g", "e", "r">>,
      <<" ", "P", "r", "o", "d", "u", "c", "t", " ", "M", "a", "n", "a", "g", "e", "r", " ">>,
      <<"S", "e", "c", "u", "r", "i", "t", "y", " ", "A", "n", "a", "l", "y", "s", "t">>,
      <<"s", "e", "c", "u", "r", "i", "t", "y", " ", "a", "n", "a", "l", "y", "s", "t">>,
      <<" ", "S", "e", "c", "u", "r", "i", "t", "y", " ", "A", "n", "a", "l", "y", "s", "t", " ">>,
      <<"C", "h", "e", "f">>,
      <<"c", "h", "e", "f">>,
      <<" ", "C", "h", "e", "f", " ">>,
      <<>>,
      <<" ">> }

\* the orchestrator asks for the variations of a role
GenerateVariations ==
    /\ calc.pc = "idle"
    /\ calc' = [calc EXCEPT !.pc = "once", !.once = GenerateRoleVariations(calc.input)]
    /\ UNCHANGED <<collect_vars, client_vars, scheduler, user_vars, market, gap, role_skills, cleanup>>

\* and asks again for the same role
GenerateVariationsAgain ==
    /\ calc.pc = "once"
    /\ calc' = [calc EXCEPT !.pc = "twice", !.twice = GenerateRoleVariations(calc.input)]
    /\ UNCHANGED <<collect_vars, client_vars, scheduler, user_vars, market, gap, role_skills, cleanup>>

(***************************************************************************)
(* JobCollectionService.cleanup_old_jobs.                                  *)
(***************************************************************************)
\* longest retention a caller passes, in days
MaxRetention == 3

\* a cleanup that goes by the time of the last update
ExpiredByUpdate(d, cutoff) == d.updated_at < cutoff

\* line 384: JobPosting.scraped_at < cutoff
Expired(d, cutoff) == d.scraped_at < cutoff

\* a stored posting scraped at one time and updated at another
StoredAt(id, url, scraped_at, updated_at) ==
    [StoredFor(id, url, RoleQA, scraped_at) EXCEPT !.updated_at = updated_at]

\* postings scraped long ago and updated today, scraped and updated on each
\* of the days a cutoff may fall on, scraped today and never updated since
CleanupPostings ==
    { StoredAt(1, "u1", 0, 4), StoredAt(2, "u2", 1, 1), StoredAt(3, "u3", 2, 3),
      StoredAt(4, "u4", 3, 0), StoredAt(5, "u5", 4, 0) }

\* no cleanup yet
IdleCleanup(days_to_keep) ==
    [pc |-> "idle", days_to_keep |-> days_to_keep, before |-> {}, deleted |-> 0]

\* cleanup_old_jobs lines 383-387: one delete of every posting scraped before
\* the cutoff; before keeps the collection as it was
CleanupOldJobs ==
    /\ cleanup.pc = "idle"
    /\ LET cutoff == clock - cleanup.days_to_keep
           found == {d \in store : Expired(d, cutoff)}
       IN  /\ store' = store \ found
           /\ cleanup' = [cleanup EXCEPT !.pc = "returned", !.before = store,
                                         !.deleted = Cardinality(found)]
    /\ UNCHANGED <<next_id, clock, run, pending, upstream, supply>>
    /\ UNCHANGED <<client_vars, scheduler, user_vars, market, gap, role_skills, calc>>

\* no call of the gap service, no function under evaluation, no cleanup
NoPureCall ==
    /\ NoGapCall
    /\ role_skills = IdleRoleSkills(<<>>, 1, 25)
    /\ calc = IdleCalc(<<>>)
    /\ cleanup = IdleCleanup(1)

(***************************************************************************)
(* Specifications.                                                         *)
(***************************************************************************)
\* no collection run: the state the collection variables keep under the
\* client's and the scheduler's specifications
NoCollection ==
    /\ store = {}
    /\ next_id = 1
    /\ clock = 1
    /\ pending = {}
    /\ upstream = [postings |-> {}, metadata |-> {}]
    /\ supply = 0
    /\ run = [r \in Runners |-> IdleRun(<<>>, 1)]

\* one search_jobs call against an upstream that may give any answer
InitClient ==
    /\ NoCollection
    /\ InitScheduler({<<RoleQA>>}, {TRUE})
    /\ InitClientVars({"a"}, 1..MaxRetriesArg, Answers)
    /\ NoUserRun
    /\ NoPureCall
    /\ NoMarketRequest

SpecClient == InitClient /\ [][ClientStep]_vars

\* two coroutines share one client, as the collection service and the
\* shutdown handler of main do; the upstream answers or is unavailable
InitSessions ==
    /\ NoCollection
    /\ InitScheduler({<<RoleQA>>}, {TRUE})
    /\ InitClientVars(Callers, {their_stack_max_retries}, {200, 503})
    /\ NoUserRun
    /\ NoPureCall
    /\ NoMarketRequest

SpecSessions == InitSessions /\ [][ClientStep \/ Close]_vars

\* the service as main.startup_event builds it, before start_scheduler
InitSched ==
    /\ NoCollection
    /\ InitClientVars({}, {their_stack_max_retries}, {})
    /\ NoUserRun
    /\ NoPureCall
    /\ NoMarketRequest
    /\ InitScheduler({<<>>, <<RoleQA>>}, BOOLEAN)

SpecSched == InitSched /\ [][SchedulerStep]_vars

\* a service built with or without roles and locations, triggered by hand
\* while it is started, stopped and fires its collection job
InitManual ==
    /\ NoCollection
    /\ InitClientVars({}, {their_stack_max_retries}, {})
    /\ NoUserRun
    /\ NoPureCall
    /\ NoMarketRequest
    /\ SchedulerService({<<>>, <<RoleQA>>}, {<<>>, <<"Oslo">>}, BOOLEAN)

ManualStep ==
    \/ Start
    \/ Stop
    \/ TriggerManualAnyArguments
    \/ Fire("daily-job-collection")
    \/ Finish("daily-job-collection")

SpecManual == InitManual /\ [][ManualStep]_vars

\* one manual collection run over any role list, against an empty collection
InitCollect ==
    /\ store = {}
    /\ next_id = 1
    /\ clock = 1
    /\ pending = {"manual"}
    /\ upstream = [postings |-> SampleJobs, metadata |-> PageMetadata]
    /\ supply = MaxSupply
    /\ InitClientVars({}, {their_stack_max_retries}, {})
    /\ NoUserRun
    /\ NoPureCall
    /\ NoMarketRequest
    /\ InitScheduler({<<RoleQA>>}, {TRUE})
    /\ \E roles \in RoleLists, per_role_limit \in 1..MaxLimit :
          run = [r \in Runners |->
                   IF r = "manual" THEN IdleRun(roles, per_role_limit)
                   ELSE IdleRun(<<>>, 1)]

SpecCollect == InitCollect /\ [][CollectStep]_vars

\* one manual run for one role that upserts every kind of posting
InitUpsert ==
    /\ store = {}
    /\ next_id = 1
    /\ clock = 1
    /\ pending = {"manual"}
    /\ upstream = [postings |-> RawJobs,
                   metadata |-> {[has_more |-> NONE, credits_used |-> 0]}]
    /\ supply = MaxSupply
    /\ InitClientVars({}, {their_stack_max_retries}, {})
    /\ NoUserRun
    /\ NoPureCall
    /\ NoMarketRequest
    /\ InitScheduler({<<RoleQA>>}, {TRUE})
    /\ run = [r \in Runners |->
                IF r = "manual" THEN IdleRun(<<RoleReact>>, MaxSupply)
                ELSE IdleRun(<<>>, 1)]

SpecUpsert == InitUpsert /\ [][CollectStep]_vars

\* one posting delivered with different technology_slugs (none, a mapped slug,
\* two slugs out of order of which one is in upper case, a lone separator),
\* and a second posting
TaggedJobs ==
    { Raw("j1", NONE, "u1", NONE, NONE, TitleDev, NONE_S),
      Tagged(Raw("j1", NONE, "u1", NONE, NONE, TitleDev, NONE_S),
             << <<"g", "o", "l", "a", "n", "g">> >>),
      Tagged(Raw("j1", NONE, "u1", NONE, NONE, TitleDev, NONE_S),
             << <<"N", "o", "d", "e", "-", "j", "s">>, <<"g", "o">> >>),
      Tagged(Raw(NONE, NONE, "u1", NONE, NONE, TitleSenior, NONE_S), << <<"-">> >>),
      Tagged(Raw(NONE, NONE, NONE, "u2", NONE, TitleDev, NONE_S), << <<"j", "s">> >>) }

\* one manual run that stores and updates postings with technology slugs
InitSkills ==
    /\ store = {}
    /\ next_id = 1
    /\ clock = 1
    /\ pending = {"manual"}
    /\ upstream = [postings |-> TaggedJobs,
                   metadata |-> {[has_more |-> NONE, credits_used |-> 0]}]
    /\ supply = MaxSupply
    /\ InitClientVars({}, {their_stack_max_retries}, {})
    /\ NoUserRun
    /\ NoPureCall
    /\ NoMarketRequest
    /\ InitScheduler({<<RoleQA>>}, {TRUE})
    /\ run = [r \in Runners |->
                IF r = "manual" THEN IdleRun(<<RoleQA>>, MaxSupply)
                ELSE IdleRun(<<>>, 1)]

SpecSkills == InitSkills /\ [][CollectStep]_vars

RoleReactNative == TitleReactNative
RoleUpperReact == <<"R", "E", "A", "C", "T">>

\* postings titled React Native under either key, a posting without a title
\* and a posting with another title
SkipJobs ==
    { Raw("j1", NONE, "u1", NONE, NONE, TitleReactNative, NONE_S),
      Raw("j2", NONE, "u2", NONE, NONE, <<>>, Lower(TitleReactNative) \o <<" ">> \o TitleDev),
      Raw("j3", NONE, "u3", NONE, NONE, NONE_S, NONE_S),
      Raw("j4", NONE, "u4", NONE, NONE, TitleDev, NONE_S) }

\* one manual run for React roles and for other roles
InitSkip ==
    /\ store = {}
    /\ next_id = 1
    /\ clock = 1
    /\ pending = {"manual"}
    /\ upstream = [postings |-> SkipJobs,
                   metadata |-> {[has_more |-> NONE, credits_used |-> 0]}]
    /\ supply = MaxSupply
    /\ InitClientVars({}, {their_stack_max_retries}, {})
    /\ NoUserRun
    /\ NoPureCall
    /\ NoMarketRequest
    /\ InitScheduler({<<RoleQA>>}, {TRUE})
    /\ \E roles \in {<<RoleReact>>, <<RoleUpperReact>>, <<RoleReactNative>>, <<RoleQA>>,
                       <<RoleReact, RoleQA>>} :
          run = [r \in Runners |->
                   IF r = "manual" THEN IdleRun(roles, MaxSupply)
                   ELSE IdleRun(<<>>, 1)]

SpecSkip == InitSkip /\ [][CollectStep]_vars

(***************************************************************************)
(* collect_jobs_for_roles: the location filters of the search payload.     *)
(***************************************************************************)
\* most locations a caller passes
MaxLocations == 2

\* lines 257-285: the branches, in the order they are tried
CountryTable ==
    << [code |-> "US", names |-> {<<"u", "n", "i", "t", "e", "d", " ", "s", "t", "a", "t", "e", "s">>}],
       [code |-> "IN", names |-> {<<"i", "n", "d", "i", "a">>}],
       [code |-> "GB", names |-> {<<"u", "n", "i", "t", "e", "d", " ", "k", "i", "n", "g", "d", "o", "m">>, <<"u", "k">>}],
       [code |-> "CA", names |-> {<<"c", "a", "n", "a", "d", "a">>}],
       [code |-> "DE", names |-> {<<"g", "e", "r", "m", "a", "n", "y">>}],
       [code |-> "AU", names |-> {<<"a", "u", "s", "t", "r", "a", "l", "i", "a">>}],
       [code |-> "SG", names |-> {<<"s", "i", "n", "g", "a", "p", "o", "r", "e">>}],
       [code |-> "JP", names |-> {<<"j", "a", "p", "a", "n">>}],
       [code |-> "HK", names |-> {<<"h", "o", "n", "g", " ", "k", "o", "n", "g">>}],
       [code |-> "CH", names |-> {<<"s", "w", "i", "t", "z", "e", "r", "l", "a", "n", "d">>}],
       [code |-> "FR", names |-> {<<"f", "r", "a", "n", "c", "e">>}],
       [code |-> "NL", names |-> {<<"n", "e", "t", "h", "e", "r", "l", "a", "n", "d", "s">>}],
       [code |-> "IE", names |-> {<<"i", "r", "e", "l", "a", "n", "d">>}],
       [code |-> "SE", names |-> {<<"s", "w", "e", "d", "e", "n">>}] >>

\* line 218: the locations that are not blank, stripped
NormalizedLocations(locations) ==
    LET kept == SelectSeq(locations, LAMBDA loc : TruthyS(loc) /\ TruthyS(Strip(loc)))
    IN  [i \in DOMAIN kept |-> Strip(kept[i])]

\* the branch a location takes: the first whose text is in loc.lower(), 0 for none
Branch(loc) ==
    LET hits == {i \in DOMAIN CountryTable :
                    \E name \in CountryTable[i].names : Contains(Lower(loc), name)}
    IN  IF hits = {} THEN 0 ELSE CHOOSE i \in hits : \A k \in hits : i <= k

\* lines 255-285: country_codes
CountryCodes(normalized_locations) ==
    LET coded == SelectSeq(normalized_locations, LAMBDA loc : Branch(loc) # 0)
    IN  [i \in DOMAIN coded |-> CountryTable[Branch(coded[i])].code]

\* lines 251-288: the location keys of the payload
LocationFilters(normalized_locations) ==
    LET country_codes == CountryCodes(normalized_locations) IN
    [keys |-> (IF normalized_locations # <<>> THEN {"job_location_pattern_or"} ELSE {})
              \cup (IF country_codes # <<>> THEN {"job_country_code_or"} ELSE {}),
     job_location_pattern_or |-> normalized_locations,
     job_country_code_or |-> country_codes]

\* locations a caller may pass
LocMilwaukee == <<"M", "i", "l", "w", "a", "u", "k", "e", "e">>
LocLondonUK == <<"L", "o", "n", "d", "o", "n", ",", " ", "U", "K">>
LocIndia == <<"I", "n", "d", "i", "a">>
LocPune == <<"P", "u", "n", "e">>
LocBlank == <<" ">>
LocPaddedCanada == <<" ", "C", "a", "n", "a", "d", "a", " ">>
LocFukuoka == <<"F", "u", "k", "u", "o", "k", "a", ",", " ", "J", "a", "p", "a", "n">>

Locations ==
    {LocMilwaukee, LocLondonUK, LocIndia, LocPune, LocBlank, LocPaddedCanada, LocFukuoka}

\* line 218
NormalizeLocations ==
    /\ calc.pc = "idle"
    /\ calc' = [calc EXCEPT !.pc = "once", !.once = NormalizedLocations(calc.input)]
    /\ UNCHANGED <<collect_vars, client_vars, scheduler, user_vars, market, gap, role_skills, cleanup>>

\* lines 251-288
BuildLocationFilters ==
    /\ calc.pc = "once"
    /\ calc' = [calc EXCEPT !.pc = "twice", !.twice = LocationFilters(calc.once)]
    /\ UNCHANGED <<collect_vars, client_vars, scheduler, user_vars, market, gap, role_skills, cleanup>>


\* postings that a React run skips, that the mapping rejects, and that the
\* document model refuses
UnstorableJobs ==
    { Raw("j2", NONE, "u2", NONE, NONE, TitleReactNative, NONE_S),
      Raw(NONE, NONE, NONE, NONE, NONE, TitleDev, NONE_S),
      Raw("j2", NONE, NONE, NONE, NONE, TitleDev, NONE_S) }

\* one manual run for React roles against an upstream that answers every
\* search, never runs out of such postings and never reports has_more = false
InitPull ==
    /\ store = {}
    /\ next_id = 1
    /\ clock = 1
    /\ pending = {"manual"}
    /\ upstream = [postings |-> UnstorableJobs,
                   metadata |-> {m \in PageMetadata : m.has_more # "False"}]
    /\ supply = -1
    /\ InitClientVars({}, {their_stack_max_retries}, {})
    /\ NoUserRun
    /\ NoPureCall
    /\ NoMarketRequest
    /\ InitScheduler({<<RoleQA>>}, {TRUE})
    /\ \E roles \in {<<RoleReact>>, <<RoleBlank, RoleReact>>, <<RoleReact, RoleReact>>},
          per_role_limit \in 1..MaxLimit :
          run = [r \in Runners |->
                   IF r = "manual" THEN IdleRun(roles, per_role_limit)
                   ELSE IdleRun(<<>>, 1)]

\* the steps of the manual run when every search is answered
PullStep ==
    \/ Trigger("manual")
    \/ NextRole("manual")
    \/ SearchReturns("manual")
    \/ NextJob("manual")
    \/ FindByJobId("manual")
    \/ Write("manual")

\* the event loop resumes the run whenever the call it awaits has answered
SpecPull == InitPull /\ [][PullStep]_vars /\ WF_vars(PullStep)

\* the scheduled run and a manual run at once, after the same postings
InitConcurrent ==
    /\ store = {}
    /\ next_id = 1
    /\ clock = 1
    /\ pending = Runners
    /\ upstream = [postings |-> ContendedJobs,
                   metadata |-> {[has_more |-> "False", credits_used |-> 1]}]
    /\ supply = MaxSupply
    /\ InitClientVars({}, {their_stack_max_retries}, {})
    /\ NoUserRun
    /\ NoPureCall
    /\ NoMarketRequest
    /\ InitScheduler({<<RoleQA>>}, {TRUE})
    /\ run = [r \in Runners |-> IdleRun(<<RolePaddedQA>>, MaxLimit)]

SpecConcurrent == InitConcurrent /\ [][CollectStep]_vars

\* one user-driven collection over any users collection and any stored
\* postings, fresh or stale at the time of the run
InitUsers ==
    /\ next_id = 4
    /\ clock = 4
    /\ pending = {}
    /\ upstream = [postings |-> {}, metadata |-> {}]
    /\ supply = 0
    /\ run = [r \in Runners |-> IdleRun(<<>>, 1)]
    /\ InitClientVars({}, {their_stack_max_retries}, {})
    /\ InitScheduler({<<RoleQA>>}, {TRUE})
    /\ store \in SUBSET {StoredFor(1, "u1", RoleQA, 1), StoredFor(2, "u2", RoleQA, 3),
                         StoredFor(3, "u3", RoleReact, 2)}
    /\ NoPureCall
    /\ NoMarketRequest
    /\ users \in UserBases
    /\ \E jobs_per_role \in 1..MaxLimit, data_freshness_days \in 1..MaxFreshness :
          user_run = IdleUserRun(jobs_per_role, data_freshness_days)

SpecUsers == InitUsers /\ [][UserStep]_vars

\* when the manual run of InitFresh begins
RunStart == MaxFreshness + 1

\* a manual run for one role, written plainly or padded, over a collection
\* that is empty or holds the posting the upstream delivers, scraped long
\* ago; a user-driven collection follows it
InitFresh ==
    /\ next_id = 2
    /\ clock = RunStart
    /\ pending = {"manual"}
    /\ upstream = [postings |-> {Raw("j1", NONE, "u1", NONE, NONE, TitleDev, NONE_S)},
                   metadata |-> {[has_more |-> "False", credits_used |-> 1]}]
    /\ supply = 1
    /\ InitClientVars({}, {their_stack_max_retries}, {})
    /\ InitScheduler({<<RoleQA>>}, {TRUE})
    /\ NoPureCall
    /\ NoMarketRequest
    /\ store \in SUBSET {StoredFor(1, "u1", RoleQA, 0)}
    /\ users \in { << <<RoleQA>> >>, << <<RolePaddedQA>> >>, << <<RoleQA, RoleReact>> >> }
    /\ \E roles \in {<<RoleQA>>, <<RolePaddedQA>>, <<RoleReact, RoleQA>>} :
          run = [r \in Runners |->
                   IF r = "manual" THEN IdleRun(roles, 1) ELSE IdleRun(<<>>, 1)]
    /\ \E jobs_per_role \in 1..MaxLimit, data_freshness_days \in 1..MaxFreshness :
          user_run = IdleUserRun(jobs_per_role, data_freshness_days)

\* the user-driven collection starts once the manual run has returned
CollectAfterRun == run["manual"].pc = "returned" /\ CollectJobsForAllUsers

FreshStep ==
    \/ Trigger("manual")
    \/ NextRole("manual")
    \/ SearchFails("manual")
    \/ SearchReturns("manual")
    \/ NextJob("manual")
    \/ FindByJobId("manual")
    \/ FindByUrl("manual")
    \/ Write("manual")
    \/ CollectAfterRun
    \/ FilterRole

SpecFresh == InitFresh /\ [][FreshStep]_vars

\* one marketSummary request over any stored postings, old and new; the
\* cache is empty or holds the skills an earlier request computed
InitMarket ==
    /\ next_id = 4
    /\ clock = 4
    /\ pending = {}
    /\ upstream = [postings |-> {}, metadata |-> {}]
    /\ supply = 0
    /\ run = [r \in Runners |-> IdleRun(<<>>, 1)]
    /\ InitClientVars({}, {their_stack_max_retries}, {})
    /\ InitScheduler({<<RoleQA>>}, {TRUE})
    /\ NoUserRun
    /\ NoPureCall
    /\ store \in SUBSET MarketPostings
    /\ \E cache \in {{}, {[key |-> SkillsKey(1, 1),
                            value |-> <<[skill |-> SlugLowerR, count |-> 1,
                                         percentage |-> 10000]>>,
                            expires |-> clock]}} :
          market = IdleMarket(cache)

SpecMarket == InitMarket /\ [][MarketStep]_vars

\* requests one after the other on a cache that starts empty, while a
\* collection run stores postings
InitCache ==
    /\ next_id = 5
    /\ clock = 4
    /\ pending = {}
    /\ upstream = [postings |-> {}, metadata |-> {}]
    /\ supply = 0
    /\ run = [r \in Runners |-> IdleRun(<<>>, 1)]
    /\ InitClientVars({}, {their_stack_max_retries}, {})
    /\ InitScheduler({<<RoleQA>>}, {TRUE})
    /\ NoUserRun
    /\ NoPureCall
    /\ store \in SUBSET {d \in MarketPostings : d.scraped_at < clock}
    /\ market = IdleMarket({})

CacheStep ==
    \/ GetMarketSummary
    \/ SkillsCount
    \/ SkillsAggregate
    \/ GetTrendingLocations
    \/ GetTechnologyTrends
    \/ GetSalaryTrends
    \/ GetRemoteJobTrends
    \/ Summarize
    \/ NextRequest
    \/ Ingest

SpecCache == InitCache /\ [][CacheStep]_vars

\* one compute_user_coverage call, for any stored user skills and any
\* required list
InitGap ==
    /\ NoCollection
    /\ clock = 1
    /\ pending = {}
    /\ upstream = [postings |-> {}, metadata |-> {}]
    /\ supply = 0
    /\ run = [r \in Runners |-> IdleRun(<<>>, 1)]
    /\ InitClientVars({}, {their_stack_max_retries}, {})
    /\ InitScheduler({<<RoleQA>>}, {TRUE})
    /\ NoUserRun
    /\ NoMarketRequest
    /\ role_skills = IdleRoleSkills(<<>>, 1, 25)
    /\ calc = IdleCalc(<<>>)
    /\ cleanup = IdleCleanup(1)
    /\ \E user_skills \in ListsUpTo(UserSkillTexts, MaxSkills), required_skills \in RequiredLists :
          gap = IdleGap(user_skills, required_skills)

SpecGap == InitGap /\ [][ComputeCoverage]_vars

\* one get_role_required_skills call over any stored postings of the role
InitRoleSkills ==
    /\ next_id = 8
    /\ clock = 4
    /\ pending = {}
    /\ upstream = [postings |-> {}, metadata |-> {}]
    /\ supply = 0
    /\ run = [r \in Runners |-> IdleRun(<<>>, 1)]
    /\ InitClientVars({}, {their_stack_max_retries}, {})
    /\ InitScheduler({<<RoleQA>>}, {TRUE})
    /\ users = <<>>
    /\ user_run = IdleUserRun(1, 1)
    /\ NoMarketRequest
    /\ NoGapCall
    /\ calc = IdleCalc(<<>>)
    /\ cleanup = IdleCleanup(1)
    /\ store \in SUBSET RolePostings
    /\ \E role \in {RoleQA, RolePaddedQA}, days \in 1..MaxDays, threshold \in Thresholds :
          role_skills = IdleRoleSkills(role, days, threshold)

SpecRoleSkills == InitRoleSkills /\ [][RoleSkillsStep]_vars

\* the state in which only a pure function is evaluated
NothingRuns ==
    /\ NoCollection
    /\ clock = 1
    /\ pending = {}
    /\ upstream = [postings |-> {}, metadata |-> {}]
    /\ supply = 0
    /\ run = [r \in Runners |-> IdleRun(<<>>, 1)]
    /\ InitClientVars({}, {their_stack_max_retries}, {})
    /\ InitScheduler({<<RoleQA>>}, {TRUE})
    /\ NoUserRun

\* map_technology_slugs applied to any list of raw slugs, and to its result
InitNormalize ==
    /\ NothingRuns
    /\ NoMarketRequest
    /\ NoGapCall
    /\ role_skills = IdleRoleSkills(<<>>, 1, 25)
    /\ cleanup = IdleCleanup(1)
    /\ \E slugs \in ListsUpTo(RawSlugs, MaxSlugs) : calc = IdleCalc(slugs)

SpecNormalize == InitNormalize /\ [][Normalize \/ NormalizeAgain]_vars

\* _generate_role_variations applied to any of the roles, twice
InitVariations ==
    /\ NothingRuns
    /\ NoMarketRequest
    /\ NoGapCall
    /\ role_skills = IdleRoleSkills(<<>>, 1, 25)
    /\ cleanup = IdleCleanup(1)
    /\ \E role \in VariationRoles : calc = IdleCalc(role)

SpecVariations == InitVariations /\ [][GenerateVariations \/ GenerateVariationsAgain]_vars

\* one cleanup_old_jobs call over any stored postings, old and new
InitCleanup ==
    /\ next_id = 6
    /\ clock = 4
    /\ pending = {}
    /\ upstream = [postings |-> {}, metadata |-> {}]
    /\ supply = 0
    /\ run = [r \in Runners |-> IdleRun(<<>>, 1)]
    /\ InitClientVars({}, {their_stack_max_retries}, {})
    /\ InitScheduler({<<RoleQA>>}, {TRUE})
    /\ NoUserRun
    /\ NoMarketRequest
    /\ NoGapCall
    /\ role_skills = IdleRoleSkills(<<>>, 1, 25)
    /\ calc = IdleCalc(<<>>)
    /\ store \in SUBSET CleanupPostings
    /\ \E days_to_keep \in 1..MaxRetention : cleanup = IdleCleanup(days_to_keep)

SpecCleanup == InitCleanup /\ [][CleanupOldJobs]_vars

\* a role that spells the word the salary key uses when no role is given
RoleAll == <<"a", "l", "l">>

\* the analytics calls whose keys are compared: the five cached operations of
\* MarketService and get_role_required_skills, each with its own arguments
AnalyticsCalls ==
    [op : {"skills", "locations", "technology"}, days : 1..MaxDays,
     limit : 1..MaxTrendLimit, role : {NONE_S}, threshold : {0}]
    \cup [op : {"salary"}, days : 1..MaxDays, limit : {0},
          role : {NONE_S, <<>>, RoleAll, RoleQA}, threshold : {0}]
    \cup [op : {"remote"}, days : 1..MaxDays, limit : {0}, role : {NONE_S}, threshold : {0}]
    \cup [op : {"role_skills"}, days : 1..MaxDays, limit : {0},
          role : {RoleQA, Lower(RoleQA), RoleAll}, threshold : Thresholds]

\* cache_key of a call
CacheKey(c) ==
    CASE c.op = "skills" -> SkillsKey(c.days, c.limit)
      [] c.op = "locations" -> LocationsKey(c.days, c.limit)
      [] c.op = "technology" -> TechnologyKey(c.days, c.limit)
      [] c.op = "salary" -> SalaryKey(c.days, c.role)
      [] c.op = "remote" -> RemoteKey(c.days)
      [] c.op = "role_skills" -> RoleSkillsKey(c.role, c.days, c.threshold)

\* what a call asks the collection: its operation, its window and limit, and
\* the filter its role amounts to (get_salary_trends filters only on a truthy
\* role; get_role_required_skills matches role.strip() ignoring case)
Query(c) ==
    [op |-> c.op, days |-> c.days, limit |-> c.limit, threshold |-> c.threshold,
     filter |-> CASE c.op = "salary" -> OrS(c.role, NONE_S)
                  [] c.op = "role_skills" -> Lower(Strip(c.role))
                  [] OTHER -> NONE_S]

\* the first call builds its cache_key
KeyOfFirst ==
    /\ calc.pc = "idle"
    /\ calc' = [calc EXCEPT !.pc = "once", !.once = CacheKey(calc.input[1])]
    /\ UNCHANGED <<collect_vars, client_vars, scheduler, user_vars, market, gap, role_skills, cleanup>>

\* the second call builds its cache_key
KeyOfSecond ==
    /\ calc.pc = "once"
    /\ calc' = [calc EXCEPT !.pc = "twice", !.twice = CacheKey(calc.input[2])]
    /\ UNCHANGED <<collect_vars, client_vars, scheduler, user_vars, market, gap, role_skills, cleanup>>

\* any two analytics calls, one after the other
InitKeys ==
    /\ NothingRuns
    /\ NoMarketRequest
    /\ NoGapCall
    /\ role_skills = IdleRoleSkills(<<>>, 1, 25)
    /\ cleanup = IdleCleanup(1)
    /\ \E first \in AnalyticsCalls, second \in AnalyticsCalls : calc = IdleCalc(<<first, second>>)

SpecKeys == InitKeys /\ [][KeyOfFirst \/ KeyOfSecond]_vars

\* the payload of one search is built for any list of locations
InitLocations ==
    /\ NothingRuns
    /\ NoMarketRequest
    /\ NoGapCall
    /\ role_skills = IdleRoleSkills(<<>>, 1, 25)
    /\ cleanup = IdleCleanup(1)
    /\ \E locations \in ListsUpTo(Locations, MaxLocations) : calc = IdleCalc(locations)

SpecLocations == InitLocations /\ [][NormalizeLocations \/ BuildLocationFilters]_vars

\* C36: two analytics calls share a cache key only when they ask the same
\* thing: the same operation, window, limit and role filter. A call whose key
\* equals the key of a call with other parameters would be served that call's
\* result.
C36_KeysInjective ==
    calc.pc = "twice" /\ calc.once = calc.twice => Query(calc.input[1]) = Query(calc.input[2])

\* the keys of calls that differ only in the spelling of an absent filter, or
\* in the case of the role, may coincide; all other calls have distinct keys
C36_InjectiveButAll ==
    calc.pc = "twice" /\ calc.once = calc.twice /\ RoleAll \notin {calc.input[1].role, calc.input[2].role}
        => Query(calc.input[1]) = Query(calc.input[2])


(***************************************************************************)
(* Claims.                                                                 *)
(***************************************************************************)
\* the payload runner r is upserting
JobData(r) == CHOOSE m \in run[r].mapped : TRUE

\* save() or insert() of runner r's upsert answers in this step
WriteStep(r) == run[r].pc = "write" /\ run'[r].pc # "write"

\* the loop of runner r takes its next posting in this step
NextJobStep(r) == run[r].pc = "jobs" /\ run'[r] # run[r]

\* C1: every upsert of a payload that carries a job_id leaves exactly one
\* document with that job_id; the document keeps the scraped_at it had (or,
\* when it is new, takes the payload's), and its other fields, updated_at
\* included, are the payload's.
C1_IdempotentUpsert ==
    [][\A r \in Runners :
        (WriteStep(r) /\ JobData(r).job_id # NONE) =>
            LET p == JobData(r)
                after == {d \in store' : d.job_id = p.job_id}
            IN  /\ Cardinality(after) = 1
                /\ \A d \in after :
                     /\ d.url = p.url
                     /\ d.title = p.title
                     /\ d.updated_at = p.updated_at
                     /\ \A e \in store : e.id = d.id => d.scraped_at = e.scraped_at
                     /\ (\A e \in store : e.id # d.id) => d.scraped_at = p.scraped_at
      ]_vars

\* C2: under every interleaving of the scheduled and the manual run, no two
\* documents of the collection share a url or a non-null job_id.
C2_UniqueKeys ==
    \A d1, d2 \in store :
        d1 # d2 => /\ d1.id # d2.id
                   /\ d1.url # d2.url
                   /\ d1.job_id # NONE => d1.job_id # d2.job_id

\* C2 witness: both runs looked up the same posting, found nothing, and the
\* insert of one of them was refused by a unique index.
C2_RaceWitness ==
    \E r1, r2 \in Runners :
        /\ r1 # r2
        /\ run[r1].upsert = "DuplicateKeyError" /\ run[r1].existing = {}
        /\ run[r2].upsert = "inserted"
        /\ run[r1].mapped # {} /\ run[r2].mapped # {}
        /\ JobData(r1).job_id = JobData(r2).job_id

YieldsNoIdentifier(job) == ~Truthy(JobIdOf(job)) /\ ~Truthy(UrlOf(job))

\* C4: a raw posting that yields neither a job_id nor a url is dropped by the
\* mapping: the step that takes it starts no store operation and leaves the
\* collection and jobs_collected as they were; no stored document lacks both.
C4_Rejection ==
    /\ [](\A d \in store : Truthy(d.job_id) \/ Truthy(d.url))
    /\ [][\A r \in Runners :
            (NextJobStep(r) /\ \E job \in run'[r].job : YieldsNoIdentifier(job)) =>
                /\ run'[r].pc \notin {"find_job_id", "find_url", "write"}
                /\ run'[r].mapped = {}
                /\ run'[r].total_collected = run[r].total_collected
                /\ store' = store /\ next_id' = next_id
         ]_vars

\* C4 witness: a posting without identifiers was taken from a fetched page and
\* dropped, after an earlier posting had been stored.
C4_Witness ==
    \E r \in Runners :
        /\ \E job \in run[r].job : YieldsNoIdentifier(job)
        /\ run[r].mapped = {}
        /\ run[r].total_pages >= 1
        /\ run[r].total_collected = 1
        /\ Cardinality(store) = 1

\* C5: a search whose every attempt is answered 503 makes exactly
\* their_stack_max_retries attempts and then raises TheirStackRetryableError.
C5_RetryExhaustion ==
    \A c \in Callers :
        LET s == call[c] IN
        (s.http_log # <<>> /\ \A i \in 1..Len(s.http_log) : s.http_log[i] = 503) =>
            /\ Len(s.http_log) <= their_stack_max_retries
            /\ s.pc = "done" <=> Len(s.http_log) = their_stack_max_retries
            /\ s.pc = "done" => s.outcome = "TheirStackRetryableError"
            /\ s.pc # "done" => s.outcome = NONE

\* C5 witness: the third 503 has ended the call.
C5_Witness ==
    \E c \in Callers :
        /\ call[c].http_log = <<503, 503, 503>>
        /\ call[c].pc = "done"
        /\ call[c].attempt_number = 3

\* C6: an answer 401 or 403 is the last answer of its call, which ends with
\* TheirStackAuthenticationError; every attempt of a call has its answer
\* logged, so no attempt follows it, and a call whose first answer is 401 or
\* 403 has made one attempt.
C6_AuthNeverRetried ==
    \A c \in Callers :
        LET s == call[c] IN
        /\ s.attempt_number \in {Len(s.http_log), Len(s.http_log) + 1}
        /\ s.pc \in {"done", "attempt"} => s.attempt_number = Len(s.http_log)
        /\ \A i \in 1..Len(s.http_log) :
              s.http_log[i] \in {401, 403} =>
                  /\ i = Len(s.http_log)
                  /\ s.pc = "done"
                  /\ s.outcome = "TheirStackAuthenticationError"
                  /\ s.attempt_number = i

\* C6 witness: a 403 that followed a retried 503 has ended the call.
C6_Witness ==
    \E c \in Callers :
        /\ call[c].http_log = <<503, 403>>
        /\ call[c].pc = "done"

\* the labels of the non-blank roles of a role list
Labels(roles) == {Strip(roles[i]) : i \in 1..Len(roles)} \ {<<>>}

\* C7: a search that fails with an authentication or a retryable error ends
\* only its role's paging: the role's summary entry holds the counters it had
\* reached, the loop moves to the next role, the call never raises, and the
\* summary it returns has an entry for every non-blank role, each of which
\* was searched.
C7_RoleIsolation ==
    /\ [](\A r \in Runners :
            /\ run[r].pc # "raised"
            /\ (run[r].pc = "returned" /\ run[r].roles # <<>>) =>
                  /\ DOMAIN run[r].summary = Labels(run[r].roles)
                  /\ run[r].searched =
                        {i \in 1..Len(run[r].roles) : Strip(run[r].roles[i]) # <<>>})
    /\ [][\A r \in Runners :
            (run[r].pc = "search"
               /\ run'[r].search_error \in {"TheirStackAuthenticationError",
                                            "TheirStackRetryableError"}) =>
                /\ run'[r].pc = "role_loop"
                /\ run'[r].role_idx = run[r].role_idx + 1
                /\ run[r].role_label \in DOMAIN run'[r].summary
                /\ run'[r].summary[run[r].role_label] =
                      [jobs_collected |-> run[r].total_collected,
                       pages_fetched |-> run[r].total_pages,
                       credits_tracked |-> run[r].total_credits_used]
                /\ store' = store
         ]_vars

\* C7 witness: the run has returned; the search of an earlier role failed
\* after a page had been fetched and a posting stored, and a later role
\* collected a posting.
C7_Witness ==
    \E r \in Runners :
        /\ run[r].pc = "returned"
        /\ \E i \in run[r].failed, j \in 1..Len(run[r].roles) :
              /\ i < j
              /\ j \notin run[r].failed
              /\ Strip(run[r].roles[j]) # <<>>
              /\ Strip(run[r].roles[j]) # Strip(run[r].roles[i])
              /\ run[r].summary[Strip(run[r].roles[i])].pages_fetched = 1
              /\ run[r].summary[Strip(run[r].roles[i])].jobs_collected = 1
              /\ run[r].summary[Strip(run[r].roles[j])].jobs_collected = 1

\* the last call made on the scheduler service
LastCall == scheduler.calls[Len(scheduler.calls)]

\* C8: stop() called while Running returns normally and leaves the service
\* Stopped with no trigger pending, so that the start() after it registers
\* the triggers and runs again; stop() called while Stopped changes nothing.
C8_StopCompletes ==
    /\ (scheduler.calls # <<>> /\ LastCall.op \in {"stop", "shutdown_event"}) =>
          /\ LastCall.result = "returned"
          /\ ~scheduler.started
          /\ scheduler.state = "stopped"
          /\ scheduler.jobs = <<>>
    /\ (scheduler.calls # <<>> /\ LastCall.op = "start") =>
          /\ scheduler.started
          /\ scheduler.state = "running"
          /\ {scheduler.jobs[i] : i \in 1..Len(scheduler.jobs)} = JobIds

\* C9: after start() calls with no stop() among them the service is Running
\* with exactly the two jobs registered, once each; a start() while Running
\* returns normally and changes nothing.
C9_StartIdempotent ==
    /\ []((scheduler.calls # <<>>
             /\ \A i \in 1..Len(scheduler.calls) : scheduler.calls[i].op = "start") =>
            /\ scheduler.started
            /\ scheduler.state = "running"
            /\ Len(scheduler.jobs) = 2
            /\ {scheduler.jobs[i] : i \in 1..Len(scheduler.jobs)} = JobIds)
    /\ [][(/\ Len(scheduler'.calls) = Len(scheduler.calls) + 1
           /\ scheduler'.calls[Len(scheduler'.calls)].op = "start"
           /\ scheduler.started /\ scheduler.state = "running") =>
              scheduler' = [scheduler EXCEPT
                  !.calls = Append(@, [op |-> "start", result |-> "returned"])]
         ]_vars

\* C9 witness: start() was called twice in a row, and a job has run since.
C9_Witness ==
    /\ Len(scheduler.calls) = 2
    /\ \A i \in 1..2 : scheduler.calls[i].op = "start"
    /\ \E id \in JobIds : scheduler.ran[id] = 1

\* C10: at most one instance of each scheduled job runs at a time; a firing
\* that finds an instance running starts nothing and is dropped, and an
\* instance starts only at a firing that finds none running.
C10_SingleInFlight ==
    /\ [](\A id \in JobIds :
            /\ scheduler.instances[id] <= 1
            /\ scheduler.ran[id] + scheduler.skipped[id] = scheduler.fired[id])
    /\ [][\A id \in JobIds :
            /\ (scheduler'.fired[id] # scheduler.fired[id] /\ scheduler.instances[id] >= 1) =>
                  /\ scheduler'.instances[id] = scheduler.instances[id]
                  /\ scheduler'.ran[id] = scheduler.ran[id]
                  /\ scheduler'.skipped[id] = scheduler.skipped[id] + 1
            /\ scheduler'.ran[id] # scheduler.ran[id] =>
                  /\ scheduler'.fired[id] = scheduler.fired[id] + 1
                  /\ scheduler.instances[id] = 0
            /\ scheduler'.instances[id] > scheduler.instances[id] =>
                  scheduler'.ran[id] = scheduler.ran[id] + 1
         ]_vars

\* C10 witness: a firing was dropped while the instance it met still runs.
C10_Witness ==
    \E id \in JobIds :
        /\ scheduler.skipped[id] = 1
        /\ scheduler.ran[id] = 1
        /\ scheduler.instances[id] = 1

\* C11: whatever error the call inside a scheduled collection firing, a
\* scheduled cleanup firing or a manual trigger raises, the wrapper returns
\* normally: nothing reaches the scheduler or the caller, the end of a firing
\* leaves the registered jobs and the scheduler's state alone, and a manual
\* trigger hands back a summary or the empty summary.
C11_ErrorsContained ==
    /\ [](scheduler.last.outcome.result \in {NONE, "returned"})
    /\ [](scheduler.last.by = "trigger_manual_collection" =>
              scheduler.last.outcome.value \in {"{}", "summary"})
    /\ [](scheduler.last.outcome.body \in BodyErrors =>
              scheduler.last.outcome.value \in {"{}", NONE})
    /\ [][\A id \in JobIds :
            scheduler'.instances[id] < scheduler.instances[id] =>
                /\ scheduler'.jobs = scheduler.jobs
                /\ scheduler'.state = scheduler.state
                /\ scheduler'.started = scheduler.started
         ]_vars

\* C11 witness: a scheduled collection firing ended on an unexpected error,
\* the wrapper returned, and the job is still registered with the running
\* scheduler.
C11_Witness ==
    /\ scheduler.last.by = "daily-job-collection"
    /\ scheduler.last.outcome.body = "Exception"
    /\ scheduler.last.outcome.result = "returned"
    /\ scheduler.state = "running"
    /\ \E i \in 1..Len(scheduler.jobs) : scheduler.jobs[i] = "daily-job-collection"

\* the distinct target roles of the users that have no stored posting found
\* under them and first scraped within freshness_days of now
StaleRoles(freshness_days) ==
    {role \in UniqueRoles(users) :
        ~\E d \in store : /\ d.search_keywords = role
                          /\ clock - d.scraped_at <= freshness_days}

\* C12: the role list collect_jobs_for_all_users hands to
\* collect_jobs_for_roles holds, once each, exactly the distinct target roles
\* of the users that have no stored posting with that search_keywords scraped
\* within the freshness window; when there is no such role, or no role at all,
\* it returns {} and the orchestrator is not called.
C12_FreshnessSkip ==
    LET passed == run["scheduled"].roles
        stale == StaleRoles(user_run.data_freshness_days)
    IN  /\ user_run.pc = "collecting" =>
              /\ run["scheduled"].pc = "role_loop"
              /\ run["scheduled"].per_role_limit = user_run.jobs_per_role
              /\ {passed[i] : i \in 1..Len(passed)} = stale
              /\ \A i, j \in 1..Len(passed) : passed[i] = passed[j] => i = j
              /\ stale # {}
        /\ user_run.pc = "returned" =>
              /\ user_run.result = "{}"
              /\ stale = {}
        /\ user_run.pc # "collecting" => run["scheduled"] = IdleRun(<<>>, 1)

\* C12 witness: of two distinct roles one had a fresh posting and was left
\* out, the other was handed to the orchestrator.
C12_Witness ==
    /\ user_run.pc = "collecting"
    /\ Len(user_run.roles_list) = 2
    /\ run["scheduled"].roles = <<RoleReact>>
    /\ \E d \in store : d.search_keywords = RoleQA /\ d.scraped_at = user_run.cutoff_date

\* a payload with a date filter that is not None
HasDateFilter(payload) ==
    \/ "posted_at_max_age_days" \in payload.keys \ payload.nulls
    \/ "posted_at_gte" \in payload.keys \ payload.nulls
    \/ "posted_at_lte" \in payload.keys \ payload.nulls

\* C13: a search_jobs call whose payload is empty or has no date filter ends
\* with ValueError, has made no HTTP attempt and has taken no session; while
\* no other call has been made the client has created none.
C13_ValidationBeforeNetwork ==
    \A c \in Callers :
        LET s == call[c] IN
        (s.pc \notin {"idle", "no call"} /\ ~HasDateFilter(s.payload)) =>
            /\ s.pc = "done"
            /\ s.outcome = "ValueError"
            /\ s.http_log = <<>>
            /\ s.attempt_number = 0
            /\ s.session = 0
            /\ (\A d \in Callers \ {c} : call[d].pc \in {"idle", "no call"}) =>
                   client.session = 0 /\ client.sessions_created = 0

\* C13 witness: a payload with keys, none of them a date filter with a value,
\* was refused.
C13_Witness ==
    \E c \in Callers :
        /\ call[c].pc = "done"
        /\ call[c].outcome = "ValueError"
        /\ call[c].payload.keys = {"posted_at_max_age_days"}
        /\ call[c].payload.nulls = {"posted_at_max_age_days"}

\* C14: an answer 4xx other than 401, 403 and 429 is the last answer of its
\* call, which ends with TheirStackClientError (not one of its subclasses);
\* no attempt follows it.
C14_ClientErrorNotRetried ==
    \A c \in Callers :
        LET s == call[c] IN
        \A i \in 1..Len(s.http_log) :
            (400 <= s.http_log[i] /\ s.http_log[i] < 500
               /\ s.http_log[i] \notin {401, 403, 429}) =>
                /\ i = Len(s.http_log)
                /\ s.attempt_number = i
                /\ s.pc = "done"
                /\ s.outcome = "TheirStackClientError"

\* C14 witness: a 404 that followed a retried 429 has ended the call.
C14_Witness ==
    \E c \in Callers :
        /\ call[c].http_log = <<429, 404>>
        /\ call[c].pc = "done"
        /\ call[c].outcome = "TheirStackClientError"

\* C15: a transport failure on an attempt before the last allowed one is
\* followed by another attempt; on the last allowed attempt it ends the call
\* with TheirStackRetryableError; and a call whose transport failures are
\* followed by a 200 with a well-formed body returns the data.
C15_TransportRetryable ==
    \A c \in Callers :
        LET s == call[c] IN
        /\ \A i \in 1..Len(s.http_log) :
              s.http_log[i] = RequestError =>
                  IF i < their_stack_max_retries
                  THEN \/ i < Len(s.http_log)
                       \/ s.pc = "attempt" /\ s.attempt_number = i
                       \/ s.pc = "posting" /\ s.attempt_number = i + 1
                  ELSE /\ i = Len(s.http_log)
                       /\ s.pc = "done"
                       /\ s.outcome = "TheirStackRetryableError"
        /\ (/\ s.pc = "done"
            /\ Len(s.http_log) >= 2
            /\ s.http_log[Len(s.http_log)] = 200
            /\ \A i \in 1..(Len(s.http_log) - 1) : s.http_log[i] = RequestError
            /\ s.body = "jobs object") => s.outcome = "data"

\* C15 witness: two transport failures were retried and the last allowed
\* attempt succeeded.
C15_Witness ==
    \E c \in Callers :
        /\ call[c].http_log = <<RequestError, RequestError, 200>>
        /\ call[c].pc = "done"
        /\ call[c].outcome = "data"

\* C16: a call that ends on a 2xx answer whose body is not a JSON object with
\* a data list ends with an error, after no retry; the body is not returned.
C16_MalformedRejected ==
    \A c \in Callers :
        LET s == call[c] IN
        (s.pc = "done" /\ s.body \in {"other json", "not json"}) =>
            /\ s.outcome = "TheirStackClientError"
            /\ s.http_log[Len(s.http_log)] = 200
            /\ s.attempt_number = Len(s.http_log)

\* C17: every request a search_jobs call sends has a limit, not above
\* settings.max_jobs_per_search, and has page 1 when the caller's payload had
\* neither "page" nor "offset".
C17_RequestBounded ==
    \A c \in Callers :
        LET s == call[c] IN
        s.attempt_number >= 1 =>
            /\ "limit" \in s.payload.keys
            /\ s.payload.limit <= max_jobs_per_search
            /\ ("page" \notin s.given.keys /\ "offset" \notin s.given.keys) =>
                   "page" \in s.payload.keys /\ s.payload.page = 1

C19_SharedSession ==
    /\ [](/\ client.sessions_created <= client.closes + 1
          /\ client.session \in {0, client.sessions_created}
          /\ client.closes = 0 =>
                \A c, d \in Callers :
                   (call[c].session # 0 /\ call[d].session # 0) =>
                       call[c].session = call[d].session)
    /\ [][/\ \A c \in Callers :
                (call[c].pc = "attempt" /\ call'[c].pc = "posting") =>
                   /\ call'[c].session = client'.session
                   /\ client'.session # 0
                   /\ client.session # 0 => client' = client
                   /\ client.session = 0 =>
                         client'.sessions_created = client.sessions_created + 1
          /\ client'.closes # client.closes => client'.session = 0
          /\ client'.session # client.session =>
                \/ client'.closes # client.closes
                \/ client.session = 0
         ]_vars

C19_Witness ==
    /\ client.closes = 0
    /\ client.sessions_created = 1
    /\ \A c \in Callers : call[c].pc = "posting" /\ call[c].session = 1

\* the window of the request in progress, taken when it began, holds no posting
EmptyWindow == \A d \in store : d.scraped_at < market.began - market.days

\* C20: marketSummary on a window with no postings answers with empty lists
\* for top skills, top locations, technology trends, salary trends and remote
\* distribution and with total_jobs_analyzed = 0; every coroutine of the
\* gather returns an empty list, so nothing is raised.
C20_ZeroData ==
    /\ (market.pc # "idle" /\ EmptyWindow) =>
           \A op \in Ops : market.task[op].pc = "returned" => market.task[op].value = <<>>
    /\ (market.pc = "done" /\ EmptyWindow) =>
           /\ market.response.top_skills = <<>>
           /\ market.response.top_locations = <<>>
           /\ market.response.technology_trends = <<>>
           /\ market.response.salary_trends = <<>>
           /\ market.response.remote_distribution = <<>>
           /\ market.response.total_jobs_analyzed = 0
           /\ market.response.window_days = market.days

C20_Witness ==
    /\ market.pc = "done"
    /\ store # {}
    /\ EmptyWindow
    /\ market.cache # {}
    /\ market.response.total_jobs_analyzed = 0

\* some store query of the request in progress has failed
QueryFailed == market.count_failed \/ \E op \in Ops : market.task[op].failed

\* C21: when a store query issued while marketSummary is computed fails, the
\* answer is the empty result with total_jobs_analyzed = 0; an emptied
\* category never comes with a total that is not 0.
C21_FailureDegrades ==
    (market.pc = "done" /\ QueryFailed) =>
        /\ market.response.total_jobs_analyzed = 0
        /\ market.response.top_skills = <<>>
        /\ market.response.top_locations = <<>>
        /\ market.response.technology_trends = <<>>
        /\ market.response.salary_trends = <<>>
        /\ market.response.remote_distribution = <<>>

\* the stored skill u and the required skill r are the same name, letter case
\* and surrounding blanks apart
SameSkill(u, r) ==
    /\ u # NONE_S
    /\ Strip(u) # <<>>
    /\ Lower(Strip(u)) = Lower(Strip(OrS(r.technology_slug, r.skill)))

\* the positions of the required skills the user has
Held ==
    {i \in DOMAIN gap.required_skills :
        \E j \in DOMAIN gap.user_skills :
            SameSkill(gap.user_skills[j], gap.required_skills[i])}

\* C22: compute_user_coverage compares without regard to letter case: the
\* match count is the number of required skills the user has, the missing
\* list is the required skills the user lacks, count + |missing| is the
\* number of required skills, coverage is count / total * 100, and an empty
\* required list gives ([], [], 0, 0, 0).
C22_Coverage ==
    gap.pc = "computed" =>
        LET r == gap.result
            n == Len(gap.required_skills)
        IN  /\ r.skills_have = Cardinality(Held)
            /\ r.total_skills = n
            /\ r.skills_have + Len(r.missing_skills) = n
            /\ Len(r.skill_gap_items) = n
            /\ \A i \in 1..n : r.skill_gap_items[i].user_has = (i \in Held)
            /\ \A i \in 1..n : i \notin Held =>
                   \E k \in DOMAIN r.missing_skills :
                      /\ r.missing_skills[k] = r.skill_gap_items[i].skill
                      /\ k = Cardinality({h \in 1..i : h \notin Held})
            /\ r.coverage.num * Max(n, 1) = Cardinality(Held) * 100 * r.coverage.den
            /\ n = 0 => r = [skill_gap_items |-> <<>>, missing_skills |-> <<>>,
                              coverage |-> [num |-> 0, den |-> 1],
                              skills_have |-> 0, total_skills |-> 0]

\* three of four required skills held, one of them in the other letter case
C22_Witness ==
    /\ gap.pc = "computed"
    /\ Len(gap.required_skills) = 4
    /\ gap.result.skills_have = 3
    /\ gap.result.coverage = [num |-> 300, den |-> 4]
    /\ Len(gap.result.missing_skills) = 1
    /\ \E j \in DOMAIN gap.user_skills : gap.user_skills[j] = <<"R">>

\* the postings of the call's role in its window: those collected for the
\* role, or those that name it in the title when none was collected for it
PostingsOfRole ==
    LET role == Lower(Strip(role_skills.role))
        recent == {d \in store : d.scraped_at >= clock - role_skills.days}
        collected == {d \in recent : Lower(d.search_keywords) = role}
    IN  IF collected # {} THEN collected
        ELSE {d \in recent : Contains(Lower(d.title), role)}

\* how often tag stands in the postings of the role
Occurrences(tag) ==
    Cardinality(UNION { { <<d.id, i>> : i \in {j \in DOMAIN d.technology_slugs :
                                                 d.technology_slugs[j] = tag} }
                          : d \in PostingsOfRole })

\* C23: get_role_required_skills returns exactly the tags of the role's
\* postings in the window whose percentage, count / postings of the role *
\* 100, is at least threshold * 100.
C23_Threshold ==
    (role_skills.pc = "returned" /\ ~role_skills.failed) =>
        LET total == Cardinality(PostingsOfRole)
            returned == {role_skills.result[i].skill : i \in DOMAIN role_skills.result}
        IN  /\ \A tag \in {SlugR, SlugQA, SlugLowerR} :
                   tag \in returned <=>
                      /\ Occurrences(tag) > 0
                      /\ Occurrences(tag) * 100 >= role_skills.threshold * total
            /\ \A i \in DOMAIN role_skills.result :
                   /\ role_skills.result[i].count = Occurrences(role_skills.result[i].skill)
                   /\ role_skills.result[i].total_jobs = total
            /\ Cardinality(returned) = Len(role_skills.result)

\* of five postings a tag in four is returned at 0.25, a tag in one is not
C23_Witness ==
    /\ role_skills.pc = "returned"
    /\ role_skills.threshold = 25
    /\ Cardinality(PostingsOfRole) = 5
    /\ Occurrences(SlugR) = 4
    /\ Occurrences(SlugQA) = 1
    /\ Len(role_skills.result) = 1
    /\ role_skills.result[1].skill = SlugR
    /\ role_skills.result[1].percentage = 8000

\* C24: map_technology_slugs is idempotent, and its result is sorted, free of
\* duplicates and free of empty and blank entries.
C24_NormalizeIdempotent ==
    /\ calc.pc = "twice" => calc.twice = calc.once
    /\ calc.pc \in {"once", "twice"} =>
          /\ \A i, j \in DOMAIN calc.once : i < j => StrLess(calc.once[i], calc.once[j])
          /\ \A i \in DOMAIN calc.once : Strip(calc.once[i]) # <<>>

\* the names the call may return, in the order the code lists them
Candidates == <<calc.input>> \o RoleVariations(Lower(calc.input))

\* where the name v is first seen among the candidates, letter case apart
FirstSeen(v) ==
    CHOOSE i \in DOMAIN Candidates :
        /\ Lower(Strip(Candidates[i])) = Lower(Strip(v))
        /\ \A h \in 1..(i - 1) : Lower(Strip(Candidates[h])) # Lower(Strip(v))

\* C25: _generate_role_variations gives the same list for the same role; for a
\* role that is not blank the first element is the role as passed, no two
\* elements are equal letter case apart, and the elements stand in the order
\* in which they were first seen.
C25_RoleVariations ==
    /\ calc.pc = "twice" => calc.twice = calc.once
    /\ calc.pc \in {"once", "twice"} =>
          /\ Strip(calc.input) # <<>> => (calc.once # <<>> /\ calc.once[1] = calc.input)
          /\ \A i, j \in DOMAIN calc.once : i < j => Lower(calc.once[i]) # Lower(calc.once[j])
          /\ \A k \in DOMAIN calc.once : calc.once[k] = Candidates[FirstSeen(calc.once[k])]
          /\ \A i, j \in DOMAIN calc.once : i < j => FirstSeen(calc.once[i]) < FirstSeen(calc.once[j])
          /\ \A i \in DOMAIN Candidates :
                 Strip(Candidates[i]) # <<>> =>
                    \E k \in DOMAIN calc.once : Lower(Strip(calc.once[k])) = Lower(Strip(Candidates[i]))

\* a role in lower case whose branch lists the role itself: the listed name
\* is dropped as a duplicate
C25_Witness ==
    /\ calc.pc = "twice"
    /\ calc.input = Lower(calc.input)
    /\ \E i \in DOMAIN Candidates : i > 1 /\ Lower(Candidates[i]) = calc.input
    /\ Len(calc.once) = Len(Candidates) - 1
    /\ calc.once[1] = calc.input

\* C26: cleanup_old_jobs deletes the postings scraped before now minus
\* days_to_keep, as whole documents, returns how many it deleted and leaves
\* every other posting as it was; updated_at plays no part.
C26_Cleanup ==
    cleanup.pc = "returned" =>
        /\ store = {d \in cleanup.before : d.scraped_at >= clock - cleanup.days_to_keep}
        /\ cleanup.deleted = Cardinality(cleanup.before) - Cardinality(store)

\* a posting updated today is deleted, one updated long ago and one scraped
\* at the cutoff are kept
C26_Witness ==
    /\ cleanup.pc = "returned"
    /\ cleanup.deleted >= 1
    /\ \E d \in cleanup.before \ store : d.updated_at = clock
    /\ \E d \in store : d.updated_at < clock - cleanup.days_to_keep
    /\ \E d \in store : d.scraped_at = clock - cleanup.days_to_keep

\* what operation op of the request in progress computes from the postings
\* docs at the time now
Computed(op, docs, now) ==
    LET cutoff == now - market.days IN
    CASE op = "trending_skills" ->
            LET total_jobs == Cardinality({d \in docs : d.scraped_at >= cutoff}) IN
            IF total_jobs = 0 THEN {<<>>}
            ELSE {TrendingSkills(results, total_jobs) :
                     results \in SkillsPipeline(docs, cutoff, market.skills_limit)}
      [] op = "trending_locations" ->
            {TrendingLocations(results) :
                results \in LocationsPipeline(docs, cutoff, market.locations_limit)}
      [] op = "technology_trends" ->
            {TechnologyTrends(results) :
                results \in TechnologyPipeline(docs, cutoff, Min(20, market.skills_limit + 5))}
      [] op = "salary_trends" ->
            {SalaryTrends(results) : results \in SalaryPipeline(docs, cutoff)}
      [] op = "remote_trends" ->
            {RemoteTrends(results) : results \in RemotePipeline(docs, cutoff)}

\* C27: an analytics result returned at time t is the result computed from
\* the store at some time in [t - ttl, t]; ttl is 0, so whatever an operation
\* returns without a failed query is what the store gives when it returns,
\* also when the cache holds an entry for its key.
C27_BoundedStaleness ==
    [][\A op \in Ops :
          (/\ market.task[op].pc # "returned"
           /\ market'.task[op].pc = "returned"
           /\ ~market'.task[op].failed) =>
              market'.task[op].value \in Computed(op, store, clock)]_vars

\* the lists a manual trigger takes when it is given these
Defaulted(given, configured) == IF given = <<>> THEN configured ELSE given

\* C28: trigger_manual_collection with roles, locations or both left out
\* calls _run_collection_job with the scheduler's configured list in place of
\* each list left out and the given list otherwise; this is the call the
\* scheduled firing makes when the service is built with use_user_roles
\* False; the trigger can be called in every state of the scheduler.
C28_ManualDefaults ==
    /\ ENABLED TriggerManualAnyArguments
    /\ scheduler.last.by = "trigger_manual_collection" =>
          /\ scheduler.last.called.path = "_run_collection_job"
          /\ scheduler.last.called.roles =
                 Defaulted(scheduler.last.given.roles, scheduler.roles)
          /\ scheduler.last.called.locations =
                 Defaulted(scheduler.last.given.locations, scheduler.locations)
          /\ (scheduler.last.given = NoArguments /\ ~scheduler.use_user_roles) =>
                 scheduler.last.called = ScheduledCall(scheduler)

\* C28 witness: a manual trigger without roles, with locations of its own, on
\* a scheduler that is not running and has roles and locations configured.
C28_Witness ==
    /\ scheduler.last.by = "trigger_manual_collection"
    /\ scheduler.state = "stopped"
    /\ scheduler.last.given.roles = <<>>
    /\ scheduler.last.given.locations = <<"Bergen">>
    /\ scheduler.roles = <<RoleQA>>
    /\ scheduler.locations = <<"Oslo">>
    /\ scheduler.last.called.roles = <<RoleQA>>
    /\ scheduler.last.outcome.value = "summary"

\* C28 as stated: a manual trigger with a list left out makes the call the
\* scheduled firing makes.
C28_SamePath ==
    (/\ scheduler.last.by = "trigger_manual_collection"
     /\ scheduler.last.given = NoArguments) =>
        scheduler.last.called = ScheduledCall(scheduler)

\* C29: a posting that was not skipped and maps to a job_id without a url is
\* persisted by its upsert and counted: after the write the collection holds
\* a document with that job_id, and the role's count is one higher.
C29_JobIdSuffices ==
    [][\A r \in Runners :
        (/\ WriteStep(r)
         /\ Truthy(JobData(r).job_id)
         /\ ~Truthy(JobData(r).url)) =>
            /\ \E d \in store' : d.job_id = JobData(r).job_id
            /\ run'[r].total_collected = run[r].total_collected + 1
      ]_vars

\* runner r sends the search for a further page of the role in this step
NextPageStep(r) ==
    /\ run'[r].pc = "search"
    /\ run'[r].page > 1
    /\ run[r].pc # "search" \/ run'[r].page # run[r].page

\* C30: a role's paging loop asks for a further page only after a page that
\* held at least one posting and as many postings as were requested, and
\* whose metadata carried has_more = true: a page without has_more, a page
\* shorter than requested, has_more = false and an empty page each end the
\* role's loop.
C30_TerminationSignals ==
    [][\A r \in Runners :
        NextPageStep(r) =>
            /\ run[r].has_more = "True"
            /\ run[r].data_len >= 1
            /\ run[r].data_len >= run[r].request.limit
      ]_vars

\* C31: collect_jobs_for_roles is a bounded pull: when every search is
\* answered, the run eventually returns its summary, also when the upstream
\* keeps answering with non-empty pages of postings that are skipped,
\* rejected or refused by the store and never reports has_more = false.
C31_BoundedPull == <>(run["manual"].pc = "returned")

\* the roles for which the manual run reports at least one collected posting
CollectedRoles ==
    {label \in DOMAIN run["manual"].summary :
        run["manual"].summary[label].jobs_collected >= 1}

\* C32: a role becomes fresh once it has been collected: a user-driven
\* collection that starts after a run and has that run inside its freshness
\* window fetches no role for which the run reports jobs_collected >= 1, also
\* when the collected posting was in the store before and when a user writes
\* the role with blanks around it.
C32_FreshOnceCollected ==
    (/\ run["manual"].pc = "returned"
     /\ user_run.pc \in {"collecting", "returned"}
     /\ user_run.cutoff_date <= RunStart) =>
        \A i \in 1..Len(user_run.roles_to_fetch) :
            Strip(user_run.roles_to_fetch[i]) \notin CollectedRoles

\* C33: the attempt bound is the client's own: a client built with
\* max_retries = N makes at most N attempts for one search_jobs call, and the
\* number logged when the retries are exhausted is the number of attempts
\* the call made.
C33_InstanceBound ==
    \A c \in Callers :
        /\ call[c].attempt_number <= client.max_retries
        /\ (call[c].pc = "done" /\ call[c].outcome = "TheirStackRetryableError") =>
               call[c].logged_retries = call[c].attempt_number

\* C34: in a single run without a concurrent writer no upsert is lost: after
\* the write of a payload that has a job_id or a url, the collection holds a
\* document with the payload's job_id, url and title, also when the job_id is
\* that of one stored document and the url that of another.
C34_NoLostUpsert ==
    [][\A r \in Runners :
        (WriteStep(r) /\ ~LacksIdentifier(JobData(r))) =>
            \E d \in store' : /\ d.job_id = JobData(r).job_id
                               /\ d.url = JobData(r).url
                               /\ d.title = JobData(r).title
                               /\ d.updated_at = JobData(r).updated_at
      ]_vars

\* the raw posting runner r is working on
RawJob(r) == CHOOSE job \in run[r].job : TRUE

SkillsReturned ==
    LET t == market.task["trending_skills"] IN
    IF market.pc \in {"gather", "done"} /\ t.pc = "returned" /\ ~t.failed THEN t.value ELSE <<>>

\* the list is sorted by count, descending, and holds at most limit entries
C37_SortedAndCut ==
    /\ Len(SkillsReturned) <= market.skills_limit
    /\ \A i, j \in DOMAIN SkillsReturned : i < j => SkillsReturned[i].count >= SkillsReturned[j].count

\* C37: every percentage get_trending_skills reports lies between 0 and 100
\* (in hundredths: 0..10000): the count of each returned skill is at most the
\* number of postings in the window, whatever the store holds; the list is
\* sorted by count, descending, and holds at most limit entries.
C37_PercentageInRange ==
    /\ C37_SortedAndCut
    /\ \A i \in DOMAIN SkillsReturned :
          /\ SkillsReturned[i].percentage \in 0..10000
          /\ SkillsReturned[i].count <= market.task["trending_skills"].total_jobs

\* the same, for stores in which no posting lists a tag twice
C37_RangeWithoutRepeats ==
    (\A d \in store : \A i, j \in DOMAIN d.technology_slugs :
          i # j => Lower(d.technology_slugs[i]) # Lower(d.technology_slugs[j]))
        => C37_PercentageInRange


\* the role asks for React and not for React Native
ReactQuery(role) == Contains(Lower(role), react) /\ ~Contains(Lower(role), native)

\* the title the loop reads off a raw posting (line 329)
TitleRead(job) == OrS(job.job_title, job.title)

\* the title says React Native, in any letter case
SaysReactNative(title) == TruthyS(title) /\ Contains(Lower(title), react_native)

\* C38: while a role that contains "react" and not "native" is collected, a
\* posting whose title contains "react native" is neither handed to
\* upsert_job nor counted; a posting without a title, and any posting of
\* another role, is not skipped by the rule: it goes to the mapping.
C38_ReactNativeSkipped ==
    /\ [](\A r \in Runners :
            ReactQuery(run[r].role_label) =>
                \A m \in run[r].mapped : ~SaysReactNative(m.title))
    /\ [][\A r \in Runners : NextJob(r) =>
            \A job \in run'[r].job :
                /\ ReactQuery(run[r].role_label) /\ SaysReactNative(TitleRead(job)) =>
                      /\ run'[r].mapped = {}
                      /\ run'[r].total_collected = run[r].total_collected
                      /\ store' = store
                /\ ~TruthyS(TitleRead(job)) \/ ~ReactQuery(run[r].role_label) =>
                      \A m \in MapJob(run[r].role_label, job, clock) :
                          \E d \in run'[r].mapped : d.title = m.title /\ d.url = m.url
         ]_vars

\* C38 witness: a React run is over; it read both React Native postings and
\* stored the others, the one without a title among them
C38_Witness ==
    /\ run["manual"].pc = "returned"
    /\ run["manual"].roles = <<RoleUpperReact>>
    /\ run["manual"].total_collected = 2
    /\ {d.job_id : d \in store} = {"j3", "j4"}


IsLetter(c) ==
    LowerChar(c) \in {"a", "b", "c", "d", "e", "f", "g", "h", "i", "j", "k", "l", "m",
                      "n", "o", "p", "q", "r", "s", "t", "u", "v", "w", "x", "y", "z"}

\* the location names the country: one of the country's names stands in it
\* as a word of its own, in any letter case
Names(loc, names) ==
    LET l == Lower(loc) IN
    \E name \in names :
        \E i \in 0..(Len(l) - Len(name)) :
            /\ \A j \in 1..Len(name) : l[i + j] = name[j]
            /\ i = 0 \/ ~IsLetter(l[i])
            /\ i + Len(name) = Len(l) \/ ~IsLetter(l[i + Len(name) + 1])

NamesACountry(loc) == \E i \in DOMAIN CountryTable : Names(loc, CountryTable[i].names)

\* C39: every location that is not blank is sent as a free-text pattern; the
\* country codes are those of the locations that name a country of the
\* table, one code for each such location and the code of a country it
\* names, so a location that names no country of the table adds no code; the
\* country-code key is left out of the payload when no location names one.
C39_CountryCodes ==
    calc.pc = "twice" =>
        LET locations == calc.input
            payload == calc.twice
            patterns == payload.job_location_pattern_or
            naming == SelectSeq(patterns, NamesACountry)
            codes == payload.job_country_code_or
        IN  /\ \A i \in DOMAIN locations :
                  TruthyS(Strip(locations[i])) =>
                      /\ "job_location_pattern_or" \in payload.keys
                      /\ \E k \in DOMAIN patterns : patterns[k] = Strip(locations[i])
            /\ Len(codes) = Len(naming)
            /\ \A i \in DOMAIN codes :
                  i \in DOMAIN naming =>
                      \E r \in DOMAIN CountryTable :
                          CountryTable[r].code = codes[i] /\ Names(naming[i], CountryTable[r].names)
            /\ "job_country_code_or" \in payload.keys <=> naming # <<>>

\* the same for locations in which the text of a country stands only as a word
C39_CodesOfNamedCountries ==
    (\A i \in DOMAIN calc.input : calc.input[i] \notin {LocMilwaukee, LocFukuoka})
        => C39_CountryCodes


\* the payload has a maximum age that is not None
HasMaxAge(payload) == "posted_at_max_age_days" \in payload.keys \ payload.nulls

\* the payload has a bound of a date range that is not None
HasDateRange(payload) ==
    {"posted_at_gte", "posted_at_lte"} \cap (payload.keys \ payload.nulls) # {}

\* the call ended in _validate_payload, before any session or request
RejectedUnsent(s) == s.pc = "done" /\ s.outcome = "ValueError" /\ s.http_log = <<>>

\* C40: search_jobs accepts a payload only when exactly one of a maximum age
\* and a date range is present: a call whose payload has both, or neither,
\* ends with the validation error and has sent nothing.
C40_ExactlyOneTemporalFilter ==
    \A c \in Callers :
        LET s == call[c] IN
        (s.pc \notin {"idle", "no call"} /\ (HasMaxAge(s.given) <=> HasDateRange(s.given)))
            => RejectedUnsent(s)

\* a call whose payload has neither filter ends with the validation error
\* and has sent nothing; so does no call whose payload has one
C40_AtLeastOneTemporalFilter ==
    \A c \in Callers :
        LET s == call[c] IN
        s.pc \notin {"idle", "no call"} =>
            (RejectedUnsent(s) <=> ~(HasMaxAge(s.given) \/ HasDateRange(s.given)))

====
